---- MODULE Spec2Model ----
(***************************************************************************)
(* Model of the pulse (AMQP) session manager and listener of               *)
(* taskcluster-client.  Two implementations live in the repository and are *)
(* modelled side by side, selected by the variable impl:                   *)
(*   "lib"  src/lib/pulselistener.js  (PulseConnection with retry/backoff  *)
(*          and reconnect, PulseListener with reconnect handler)           *)
(*   "src"  src/src/pulseconnection.js, src/src/pulselistener.js           *)
(* null is modelled as 0; sessions, channels, dial loops, calls and        *)
(* deliveries are numbered from 1 in creation order.                       *)
(***************************************************************************)
EXTENDS Integers, Sequences, FiniteSets, TLC

\* ------------------------------------------------------------- bounds
MaxRetries == 2      \* options.retries is drawn from 0..MaxRetries
MaxTime    == 2      \* the clock runs from 0 to MaxTime
MaxLoops   == 2      \* dial loops started over the manager's life
MaxDials   == 3      \* dials of the lib manager over its life
MaxCalls   == 2      \* user calls of PulseConnection.connect()
MaxTasks   == 2      \* connect()/resume()/deleteQueue() calls on a listener
MaxBindings == 1     \* bindings recorded by bind()
MaxFaults  == 2      \* dial, session and channel failures a listener sees
MaxDeliveries == 1   \* messages the broker delivers
MaxHandlers == 2     \* `message` handlers registered on a listener
MaxSockets == 2      \* sockets a WebListener opens
MaxRequests == 3     \* requests a WebListener sends
MaxFields == 3       \* fields of a routing key reference
MaxKeyLen == 7       \* characters of a routing key
MaxValueLen == 2     \* characters of a value supplied to _topic
OwnerRetries == 1    \* options.retries of the manager a listener builds for itself

\* ------------------------------------------------- program constants
\* options.retryResetTime (5 minutes in the source), in clock ticks
RetryResetTime == 1
\* the retry count the newer PulseConnection passes to its connect helper
SrcRetries == 7

VARIABLES
  impl,                \* which implementation runs: "lib" or "src"
  options,             \* PulseConnection options: [retries, reconnect]
  now,                 \* Date.now()
  _conn,               \* PulseConnection._conn: session id or 0
  _connecting,         \* lib: promise (dial loop id) or 0; src: unused (0)
  _connectingFlag,     \* src: PulseConnection._connecting (boolean)
  _reconnectAttempts,  \* lib: PulseConnection._reconnectAttempts
  _lastReconnect,      \* lib: PulseConnection._lastReconnect
  loops,               \* dial loops: [pc, n (dials made), left (src: retries left), sess]
  sessions,            \* broker sessions: "open", "errored", "closed"
  calls,               \* user connect() calls: [loop, state, started, result]
  connEvents,          \* events emitted by the PulseConnection: [error, reconnect],
                       \* and resets: how often the reset window zeroed the counter
  dials,               \* number of amqplib.connect calls so far
  closeCalled          \* has PulseConnection.close() been called so far

connVars == <<impl, options, now, _conn, _connecting, _connectingFlag,
              _reconnectAttempts, _lastReconnect, loops, sessions, calls,
              connEvents, dials, closeCalled>>

VARIABLES
  lst,                 \* the PulseListeners: [owns, reconnect, _channel, _consumerTag,
                       \*   _bindings, _queueName, events]
  channels,            \* AMQP channels: [session, listener, open, invalidated,
                       \*   prefetch, queue, bound, consumers]
  tasks,               \* running connect()/resume()/deleteQueue() calls
  tags,                \* consumer tags handed out by the broker so far
  slugs,               \* slugid.v4() names generated so far
  deliveries,          \* messages handed to _handle: [channel, listener, decodable,
                       \*   redelivered, registered, parse, routing, handlers, stage,
                       \*   ack, nack, requeue, target, skipped, pendingAtSend, errors]
  ws,                  \* the WebListener: [socket (readyState or NoSocket), sockets
                       \*   (opened so far), _bindings (how many), closes (promises
                       \*   returned by close()), socketCloses, closeEvents, errors,
                       \*   requests (what _send sent: [id, state, value, listed])]
  tp,                  \* a Client._topic call: [reference, values, stage, pattern,
                       \*   routing]
  rk,                  \* a routing key parse of _handle: [reference, routingKey,
                       \*   routing, stage]
  lk                   \* the reference lookup of _handle: [bindings, exchange,
                       \*   stage, found]

\* the WebListener and the routing key parse
auxVars == <<ws, rk, tp, lk>>

\* what the connection and channel operations of a listener leave alone
handleVars == <<deliveries, ws, rk, tp, lk>>

lstVars == <<lst, channels, tasks, tags, slugs, deliveries, ws, rk, tp, lk>>

\* this.socket before connect()
NoSocket == -1

\* a WebListener that has not connected
WsIdle ==
  [socket |-> NoSocket, sockets |-> 0, _bindings |-> 0, closes |-> <<>>,
   socketCloses |-> 0, closeEvents |-> 0, errors |-> 0, requests |-> <<>>]

\* no message is being parsed
RkIdle == [reference |-> <<>>, routingKey |-> <<>>, routing |-> <<>>, stage |-> "idle"]

\* no reference is being looked up
LkIdle == [bindings |-> <<>>, exchange |-> "", stage |-> "idle", found |-> [kind |-> "null", fields |-> <<>>]]

\* _topic has not been called
TpIdle ==
  [reference |-> <<>>, values |-> <<>>, stage |-> "idle", pattern |-> <<>>,
   routing |-> <<>>]

vars == <<connVars, lstVars>>

\* ------------------------------------------------------------ helpers
InFlightPcs == {"sleep", "start", "dial"}

InFlight(l) == loops[l].pc \in InFlightPcs

LoopsInFlight == {l \in DOMAIN loops : InFlight(l)}

\* outcome of a settled promise: a session id, or -1 for a rejection
Rejected == -1

Pending == 0

\* ---------------------------------------------------- PulseConnection (lib)

\* lines 120-131: a non-first attempt sleeps before it dials
FirstPc(attempts) == IF attempts > 0 THEN "sleep" ELSE "start"

\* lines 179-182: has the reset window elapsed since the last attempt
ResetDue == now - _lastReconnect > RetryResetTime

\* mutant: the counter is never reset
AttemptsAfterFailureNoReset == _reconnectAttempts + 1

\* lines 179-186: the attempt counter after _rethrowOrRetry has counted a failure
AttemptsAfterFailure == (IF ResetDue THEN -1 ELSE _reconnectAttempts) + 1

\* mutant: the budget check is off by one
RethrowsOffByOne == AttemptsAfterFailure >= options.retries

\* lines 189-191: does _rethrowOrRetry rethrow
Rethrows == AttemptsAfterFailure > options.retries

\* mutant: connect() dials without looking at _connecting
LibConnectResultUnguarded(c, a, L) ==
  [connecting |-> Len(L) + 1,
   loops |-> Append(L, [pc |-> FirstPc(a), n |-> 0, left |-> 0, sess |-> 0])]

\* PulseConnection.prototype.connect applied to a value c of _connecting,
\* attempt counter a and loops L: starts a dial loop only when c is null
LibConnectResult(c, a, L) ==
  IF c = 0
    THEN [connecting |-> Len(L) + 1,
          loops |-> Append(L, [pc |-> FirstPc(a), n |-> 0, left |-> 0, sess |-> 0])]
    ELSE [connecting |-> c, loops |-> L]

\* the outcome a caller sees for promise (loop) l
LoopOutcome(L, l) ==
  CASE L[l].pc = "resolved" -> L[l].sess
    [] L[l].pc = "rejected" -> Rejected
    [] OTHER -> Pending

\* the manager's state as a caller of connect() finds it
ConnState ==
  IF impl = "lib"
    THEN (IF _connecting # 0 /\ InFlight(_connecting) THEN "inflight"
          ELSE IF _connecting # 0 /\ loops[_connecting].pc = "resolved" THEN "open"
          ELSE "idle")
    ELSE (IF _conn # 0 THEN "open"
          ELSE IF LoopsInFlight # {} THEN "inflight"
          ELSE "idle")

\* settle the calls waiting on loop l with outcome r
SettleCalls(l, r) ==
  [c \in DOMAIN calls |->
     IF calls[c].loop = l /\ calls[c].result = Pending
       THEN [calls[c] EXCEPT !.result = r] ELSE calls[c]]

\* the event counters after _rethrowOrRetry (lines 180-182) has looked at the window
Counted(ev) == IF ResetDue THEN [ev EXCEPT !.resets = @ + 1] ELSE ev

\* user calls PulseConnection.prototype.connect()
LibConnect ==
  /\ impl = "lib"
  /\ Len(calls) < MaxCalls
  /\ _connecting # 0 \/ Len(loops) < MaxLoops
  /\ LET r == LibConnectResult(_connecting, _reconnectAttempts, loops) IN
       /\ _connecting' = r.connecting
       /\ loops' = r.loops
       /\ calls' = Append(calls,
            [loop |-> r.connecting, state |-> ConnState,
             started |-> Len(r.loops) > Len(loops),
             conn |-> _conn,
             result |-> LoopOutcome(r.loops, r.connecting)])
  /\ UNCHANGED <<impl, options, now, _conn, _connectingFlag, _reconnectAttempts,
                 _lastReconnect, sessions, connEvents, dials, closeCalled>>

\* lines 128-131: the backoff timer fires
LibWake(l) ==
  /\ impl = "lib"
  /\ loops[l].pc = "sleep"
  /\ loops' = [loops EXCEPT ![l].pc = "start"]
  /\ UNCHANGED <<impl, options, now, _conn, _connecting, _connectingFlag,
                 _reconnectAttempts, _lastReconnect, sessions, calls,
                 connEvents, dials, closeCalled>>

\* lines 131-134: record the attempt time and dial
LibDial(l) ==
  /\ impl = "lib"
  /\ loops[l].pc = "start"
  /\ dials < MaxDials
  /\ _lastReconnect' = now
  /\ dials' = dials + 1
  /\ loops' = [loops EXCEPT ![l].pc = "dial", ![l].n = @ + 1]
  /\ UNCHANGED <<impl, options, now, _conn, _connecting, _connectingFlag,
                 _reconnectAttempts, sessions, calls, connEvents, closeCalled>>

\* a success path that would forget the failures counted so far
AttemptsAfterSuccessReset == IF _reconnectAttempts > 0 THEN 0 ELSE _reconnectAttempts

\* lines 134-143: the success path does not touch the attempt counter
AttemptsAfterSuccess == _reconnectAttempts

\* lines 134-143: the dial succeeded
LibDialOk(l) ==
  /\ impl = "lib"
  /\ loops[l].pc = "dial"
  /\ LET s == Len(sessions) + 1 IN
       /\ sessions' = Append(sessions, "open")
       /\ _conn' = s
       /\ loops' = [loops EXCEPT ![l].pc = "resolved", ![l].sess = s]
       /\ calls' = SettleCalls(l, s)
  /\ _reconnectAttempts' = AttemptsAfterSuccess
  /\ UNCHANGED <<impl, options, now, _connecting, _connectingFlag,
                 _lastReconnect, connEvents, dials, closeCalled>>

\* lines 143-154: the dial failed: count it, then retry or reject and emit `error`
LibDialFail(l) ==
  /\ impl = "lib"
  /\ loops[l].pc = "dial"
  /\ _lastReconnect' = now
  /\ _reconnectAttempts' = AttemptsAfterFailure
  /\ IF Rethrows
       THEN /\ loops' = [loops EXCEPT ![l].pc = "rejected"]
            /\ _connecting' = 0
            /\ connEvents' = [Counted(connEvents) EXCEPT !.error = @ + 1]
            /\ calls' = SettleCalls(l, Rejected)
       ELSE /\ loops' = [loops EXCEPT ![l].pc = FirstPc(AttemptsAfterFailure)]
            /\ connEvents' = Counted(connEvents)
            /\ UNCHANGED <<_connecting, calls>>
  /\ UNCHANGED <<impl, options, now, _conn, _connectingFlag, sessions, dials,
                 closeCalled>>

\* mutant: a session loss is not counted against the retry budget
OnErrorAttemptsUncounted == _reconnectAttempts

\* line 169: _onError counts the session loss as a failed attempt
OnErrorAttempts == AttemptsAfterFailure

\* PulseConnection.prototype._onError: an installed session reports an error
LibOnError(s) ==
  /\ impl = "lib"
  /\ sessions[s] = "open"
  /\ sessions' = [sessions EXCEPT ![s] = "errored"]
  /\ _conn' = 0
  /\ IF ~options.reconnect
       THEN /\ _connecting' = 0
            /\ connEvents' = [connEvents EXCEPT !.error = @ + 1]
            /\ UNCHANGED <<_reconnectAttempts, _lastReconnect, loops>>
       ELSE /\ _lastReconnect' = now
            /\ _reconnectAttempts' = OnErrorAttempts
            /\ IF OnErrorAttempts > options.retries
                 THEN /\ _connecting' = 0
                      /\ connEvents' = [Counted(connEvents) EXCEPT !.error = @ + 1]
                      /\ UNCHANGED loops
                 ELSE /\ Len(loops) < MaxLoops
                      /\ LET r == LibConnectResult(0, OnErrorAttempts, loops) IN
                           /\ _connecting' = r.connecting
                           /\ loops' = r.loops
                      /\ connEvents' = [Counted(connEvents) EXCEPT !.reconnect = @ + 1]
  /\ UNCHANGED <<impl, options, now, _connectingFlag, calls, dials, closeCalled>>

\* PulseConnection.prototype.close
LibClose ==
  /\ impl = "lib"
  /\ closeCalled' = TRUE
  /\ _connecting' = 0
  /\ _conn' = 0
  /\ sessions' = IF _conn # 0 /\ sessions[_conn] = "open"
                   THEN [sessions EXCEPT ![_conn] = "closed"] ELSE sessions
  /\ UNCHANGED <<impl, options, now, _connectingFlag, _reconnectAttempts,
                 _lastReconnect, loops, calls, connEvents, dials>>

\* the clock advances (only the lib manager reads it)
Tick ==
  /\ impl = "lib"
  /\ now < MaxTime
  /\ now' = now + 1
  /\ UNCHANGED <<impl, options, _conn, _connecting, _connectingFlag,
                 _reconnectAttempts, _lastReconnect, loops, sessions, calls,
                 connEvents, dials, closeCalled>>

\* ---------------------------------------------------- PulseConnection (src)

\* settle every waiter registered with once('connection') with outcome r
SettleWaiters(r) ==
  [c \in DOMAIN calls |->
     IF calls[c].result = Pending THEN [calls[c] EXCEPT !.result = r] ELSE calls[c]]

\* the loop a src caller waits on: the one in flight, else the one it starts
SrcLoopFor(L) ==
  IF \E l \in DOMAIN L : L[l].pc \in InFlightPcs
    THEN CHOOSE l \in DOMAIN L : L[l].pc \in InFlightPcs
    ELSE 0

\* PulseConnection.connect applied to (_conn, _connecting): the new flag, the
\* loops and whether the call dialled
SrcConnectResult(c, flag, L) ==
  IF c # 0 \/ flag
    THEN [flag |-> flag, loops |-> L, dialled |-> FALSE]
    ELSE [flag |-> TRUE,
          loops |-> Append(L, [pc |-> "dial", n |-> 1, left |-> SrcRetries, sess |-> 0]),
          dialled |-> TRUE]

\* user calls PulseConnection.connect()
SrcConnect ==
  /\ impl = "src"
  /\ Len(calls) < MaxCalls
  /\ _conn # 0 \/ _connectingFlag \/ Len(loops) < MaxLoops
  /\ LET r == SrcConnectResult(_conn, _connectingFlag, loops) IN
       /\ _connectingFlag' = r.flag
       /\ loops' = r.loops
       /\ dials' = IF r.dialled THEN dials + 1 ELSE dials
       /\ calls' = Append(calls,
            [loop |-> SrcLoopFor(r.loops), state |-> ConnState,
             started |-> r.dialled,
             conn |-> _conn,
             result |-> IF _conn # 0 THEN _conn ELSE Pending])
  /\ UNCHANGED <<impl, options, now, _conn, _connecting, _reconnectAttempts,
                 _lastReconnect, sessions, connEvents, closeCalled>>

\* lines 86-99: the dial succeeded
SrcDialOk(l) ==
  /\ impl = "src"
  /\ loops[l].pc = "dial"
  /\ LET s == Len(sessions) + 1 IN
       /\ sessions' = Append(sessions, "open")
       /\ _conn' = s
       /\ loops' = [loops EXCEPT ![l].pc = "resolved", ![l].sess = s]
       /\ calls' = SettleWaiters(s)
  /\ _connectingFlag' = FALSE
  /\ UNCHANGED <<impl, options, now, _connecting, _reconnectAttempts,
                 _lastReconnect, connEvents, dials, closeCalled>>

\* lines 23-36 and 100: the dial failed: dial again while retries are left,
\* else announce the failure to the waiters
SrcDialFail(l) ==
  /\ impl = "src"
  /\ loops[l].pc = "dial"
  /\ IF loops[l].left > 0
       THEN /\ loops' = [loops EXCEPT ![l].left = @ - 1, ![l].n = @ + 1]
            /\ dials' = dials + 1
            /\ UNCHANGED calls
       ELSE /\ loops' = [loops EXCEPT ![l].pc = "rejected"]
            /\ calls' = SettleWaiters(Rejected)
            /\ UNCHANGED dials
  /\ UNCHANGED <<impl, options, now, _conn, _connecting, _connectingFlag,
                 _reconnectAttempts, _lastReconnect, sessions, connEvents,
                 closeCalled>>

\* lines 91-94: an installed session reports an error
SrcOnError(s) ==
  /\ impl = "src"
  /\ sessions[s] = "open"
  /\ sessions' = [sessions EXCEPT ![s] = "errored"]
  /\ connEvents' = [connEvents EXCEPT !.error = @ + 1]
  /\ UNCHANGED <<impl, options, now, _conn, _connecting, _connectingFlag,
                 _reconnectAttempts, _lastReconnect, loops, calls, dials,
                 closeCalled>>

\* PulseConnection.close
SrcClose ==
  /\ impl = "src"
  /\ closeCalled' = TRUE
  /\ _conn' = 0
  /\ sessions' = IF _conn # 0 /\ sessions[_conn] = "open"
                   THEN [sessions EXCEPT ![_conn] = "closed"] ELSE sessions
  /\ UNCHANGED <<impl, options, now, _connecting, _connectingFlag,
                 _reconnectAttempts, _lastReconnect, loops, calls, connEvents,
                 dials>>

\* ---------------------------------------------------- specification

InitConn ==
  /\ impl \in {"lib", "src"}
  /\ options \in [retries : 0..MaxRetries, reconnect : BOOLEAN]
  /\ impl = "src" => options = [retries |-> 0, reconnect |-> FALSE]
  /\ now = 0
  /\ _conn = 0
  /\ _connecting = 0
  /\ _connectingFlag = FALSE
  /\ _reconnectAttempts = 0
  /\ _lastReconnect = 0
  /\ loops = <<>>
  /\ sessions = <<>>
  /\ calls = <<>>
  /\ connEvents = [error |-> 0, reconnect |-> 0, resets |-> 0]
  /\ dials = 0
  /\ closeCalled = FALSE
  /\ lst = <<>>
  /\ channels = <<>>
  /\ tasks = <<>>
  /\ tags = 0
  /\ slugs = 0
  /\ deliveries = <<>>
  /\ ws = WsIdle
  /\ tp = TpIdle
  /\ lk = LkIdle
  /\ rk = RkIdle

NextConn ==
  \/ LibConnect /\ UNCHANGED lstVars
  \/ \E l \in DOMAIN loops : LibWake(l) /\ UNCHANGED lstVars
  \/ \E l \in DOMAIN loops : LibDial(l) /\ UNCHANGED lstVars
  \/ \E l \in DOMAIN loops : LibDialOk(l) /\ UNCHANGED lstVars
  \/ \E l \in DOMAIN loops : LibDialFail(l) /\ UNCHANGED lstVars
  \/ \E s \in DOMAIN sessions : LibOnError(s) /\ UNCHANGED lstVars
  \/ LibClose /\ UNCHANGED lstVars
  \/ Tick /\ UNCHANGED lstVars
  \/ SrcConnect /\ UNCHANGED lstVars
  \/ \E l \in DOMAIN loops : SrcDialOk(l) /\ UNCHANGED lstVars
  \/ \E l \in DOMAIN loops : SrcDialFail(l) /\ UNCHANGED lstVars
  \/ \E s \in DOMAIN sessions : SrcOnError(s) /\ UNCHANGED lstVars
  \/ SrcClose /\ UNCHANGED lstVars

SpecConn == InitConn /\ [][NextConn]_vars

\* ---------------------------------------------------- PulseListener

\* the faults the environment has injected so far: failed dials, failed
\* sessions and failed channels
Faults ==
  (dials - Len(sessions) - Cardinality({l \in DOMAIN loops : loops[l].pc = "dial"}))
  + Cardinality({s \in DOMAIN sessions : sessions[s] = "errored"})
  + Cardinality({c \in DOMAIN channels : channels[c].failed})

\* a channel as conn.createConfirmChannel() returns it, on session s for listener i
NewChannel(s, i) ==
  [session |-> s, listener |-> i, open |-> TRUE, failed |-> FALSE, invalidated |-> "undefined",
   prefetch |-> FALSE, queue |-> 0, bound |-> <<>>, consumers |-> {}]

\* a channel once it is closed: the broker forgets what was set up on it
ClosedChannel(ch) ==
  [ch EXCEPT !.open = FALSE, !.prefetch = FALSE, !.queue = 0, !.bound = <<>>,
             !.consumers = {}]

\* the channels C once session s is gone: its channels and their consumers die
CloseSessionChannels(C, s) ==
  [c \in DOMAIN C |->
     IF C[c].session = s
       THEN ClosedChannel(C[c]) ELSE C[c]]

\* this._connection.connect() as a listener calls it: the promise it gets back,
\* [loop: the dial loop awaited, sess: the session if already resolved]
ConnectionPromise ==
  IF impl = "lib"
    THEN LET r == LibConnectResult(_connecting, _reconnectAttempts, loops) IN
           [loop |-> r.connecting, sess |-> LoopOutcome(r.loops, r.connecting)]
    ELSE LET r == SrcConnectResult(_conn, _connectingFlag, loops) IN
           [loop |-> SrcLoopFor(r.loops), sess |-> IF _conn # 0 THEN _conn ELSE Pending]

\* this._connection.connect() as a listener calls it: its effect on the manager
ConnectionConnect ==
  /\ IF impl = "lib"
       THEN /\ _connecting # 0 \/ Len(loops) < MaxLoops
            /\ LET r == LibConnectResult(_connecting, _reconnectAttempts, loops) IN
                 /\ _connecting' = r.connecting
                 /\ loops' = r.loops
            /\ UNCHANGED <<_connectingFlag, dials>>
       ELSE /\ _conn # 0 \/ _connectingFlag \/ Len(loops) < MaxLoops
            /\ LET r == SrcConnectResult(_conn, _connectingFlag, loops) IN
                 /\ _connectingFlag' = r.flag
                 /\ loops' = r.loops
                 /\ dials' = IF r.dialled THEN dials + 1 ELSE dials
            /\ UNCHANGED _connecting
  /\ UNCHANGED <<impl, options, now, _conn, _reconnectAttempts, _lastReconnect,
                 sessions, calls, connEvents, closeCalled>>

\* a call that failed: its promise is rejected, nothing else of it remains
FailedTask(T) ==
  [T EXCEPT !.pc = "failed", !.loop = 0, !.sess = 0, !.channel = 0, !.old = 0,
            !.wasConsuming = FALSE, !.bindingsAtEvent = <<>>, !.issued = 0,
            !.pausedSince = FALSE]

\* what a call does once connect() has given it the channel
AfterConnect(kind) ==
  CASE kind = "connect" -> "done"
    [] kind = "resume" -> "consume"
    [] kind = "deleteQueue" -> "delete"

\* a connect()/resume()/deleteQueue() call of listener i that has to connect:
\* it waits for promise p, then asks the session for a channel
NewTask(i, kind, origin, p, old, was, bs) ==
  [listener |-> i, kind |-> kind, origin |-> origin,
   pc |-> IF p.sess > 0 THEN "channel" ELSE "conn",
   loop |-> p.loop, sess |-> p.sess, channel |-> 0, tag |-> 0,
   old |-> old, wasConsuming |-> was, bindingsAtEvent |-> bs, issued |-> 0,
   pausedSince |-> FALSE]

\* a call of listener i that finds this._channel set: connect() resolves with it
HeldTask(i, kind) ==
  [listener |-> i, kind |-> kind, origin |-> "user",
   pc |-> AfterConnect(kind),
   loop |-> 0, sess |-> channels[lst[i]._channel].session,
   channel |-> lst[i]._channel, tag |-> 0,
   old |-> 0, wasConsuming |-> FALSE, bindingsAtEvent |-> <<>>, issued |-> 0,
   pausedSince |-> FALSE]

\* is call T the resume() that the reconnect handler of listener i started,
\* still under way
Reestablishing(T, i) ==
  /\ T.listener = i
  /\ T.origin = "reconnect"
  /\ T.kind = "resume"
  /\ T.pc \notin {"done", "failed"}

\* the calls T with it noted, on each resume() a reconnect handler of
\* listener i has under way, whether pause() was called after the user's last
\* resume()
NotePause(T, i, p) ==
  [t \in DOMAIN T |->
     IF Reestablishing(T[t], i) THEN [T[t] EXCEPT !.pausedSince = p] ELSE T[t]]

\* the calls under way when the user starts a call of the given kind
CallsAtStart(i, kind) ==
  IF kind = "resume" THEN NotePause(tasks, i, FALSE) ELSE tasks

\* PulseListener connect(), resume() or deleteQueue() is called by the user
StartCall(i, kind) ==
  /\ Len(tasks) < MaxTasks
  /\ IF lst[i]._channel # 0
       THEN /\ tasks' = Append(CallsAtStart(i, kind), HeldTask(i, kind))
            /\ UNCHANGED connVars
       ELSE /\ ConnectionConnect
            /\ tasks' = Append(CallsAtStart(i, kind),
                 NewTask(i, kind, "user", ConnectionPromise, 0, FALSE, <<>>))
  /\ UNCHANGED <<lst, channels, tags, slugs>>

connect(i) == StartCall(i, "connect")

resume(i) == StartCall(i, "resume")

deleteQueue(i) == StartCall(i, "deleteQueue")

\* a bind() that would leave every binding to the next connect()
BindIssuesNever(i) == FALSE

\* does bind() of listener i issue bindQueue now: only on a held channel
\* (on a closed one the call fails and nothing is issued)
BindIssues(i) == lst[i]._channel # 0 /\ channels[lst[i]._channel].open

\* PulseListener bind: record the binding, issue it if a channel is held
bind(i) ==
  /\ Len(lst[i]._bindings) < MaxBindings
  /\ LET b == Len(lst[i]._bindings) + 1
         c == lst[i]._channel
     IN /\ lst' = [lst EXCEPT ![i]._bindings = Append(@, b)]
        /\ channels' = IF BindIssues(i)
                         THEN [channels EXCEPT ![c].bound = Append(@, b)]
                         ELSE channels
  /\ UNCHANGED <<connVars, tasks, tags, slugs>>

\* conn.createConfirmChannel() answered: install the channel error handler and
\* ask for the prefetch limit (src also names the queue anew here)
ChannelCreated(t) ==
  /\ tasks[t].pc = "channel"
  /\ sessions[tasks[t].sess] = "open"
  /\ LET i == tasks[t].listener IN
       /\ channels' = Append(channels, NewChannel(tasks[t].sess, i))
       /\ tasks' = [tasks EXCEPT ![t].pc = "prefetch", ![t].channel = Len(channels) + 1]
       /\ IF impl = "src"
            THEN /\ lst' = [lst EXCEPT ![i]._queueName = slugs + 1]
                 /\ slugs' = slugs + 1
            ELSE UNCHANGED <<lst, slugs>>
  /\ UNCHANGED <<connVars, tags>>

\* channel.prefetch() answered: declare the queue under this._queueName
PrefetchOk(t) ==
  /\ tasks[t].pc = "prefetch"
  /\ channels[tasks[t].channel].open
  /\ channels' = [channels EXCEPT ![tasks[t].channel].prefetch = TRUE,
                                   ![tasks[t].channel].queue =
                                      lst[tasks[t].listener]._queueName]
  /\ tasks' = [tasks EXCEPT ![t].pc = "assert"]
  /\ UNCHANGED <<connVars, lst, tags, slugs>>

\* channel.assertQueue() answered: publish the channel as this._channel and
\* issue every recorded binding on it (the call now awaits that many answers)
AssertOk(t) ==
  /\ tasks[t].pc = "assert"
  /\ channels[tasks[t].channel].open
  /\ LET i == tasks[t].listener
         c == tasks[t].channel
     IN /\ channels' = [channels EXCEPT ![c].bound = @ \o lst[i]._bindings]
        /\ lst' = [lst EXCEPT ![i]._channel = c]
  /\ tasks' = [tasks EXCEPT ![t].pc = "bind",
                           ![t].issued = Len(lst[tasks[t].listener]._bindings)]
  /\ UNCHANGED <<connVars, tags, slugs>>

\* every bindQueue() answered: connect() resolves with the channel (lib marks
\* it valid); resume() goes on to consume, deleteQueue() to delete
BindOk(t) ==
  /\ tasks[t].pc = "bind"
  /\ channels[tasks[t].channel].open
  /\ channels' = IF impl = "lib"
                   THEN [channels EXCEPT ![tasks[t].channel].invalidated = "false"]
                   ELSE channels
  /\ tasks' = [tasks EXCEPT ![t].pc = AfterConnect(tasks[t].kind), ![t].issued = 0]
  /\ UNCHANGED <<connVars, lst, tags, slugs>>

\* channel.consume() answered: store the consumer tag
ConsumeOk(t) ==
  /\ tasks[t].pc = "consume"
  /\ channels[tasks[t].channel].open
  /\ tags' = tags + 1
  /\ channels' = [channels EXCEPT ![tasks[t].channel].consumers = @ \cup {tags + 1}]
  /\ lst' = [lst EXCEPT ![tasks[t].listener]._consumerTag = tags + 1]
  /\ tasks' = [tasks EXCEPT ![t].pc = "done", ![t].tag = tags + 1,
                           ![t].pausedSince = FALSE]
  /\ UNCHANGED <<connVars, slugs>>

\* does close() of listener i close the connection
ClosesConnection(i) ==
  IF impl = "lib" THEN lst[i].owns ELSE lst[i].owns \/ lst[i]._channel = 0

\* the channels C after PulseListener close() of listener i
ChannelsAfterClose(C, i) ==
  IF ClosesConnection(i)
    THEN (IF _conn # 0 THEN CloseSessionChannels(C, _conn) ELSE C)
    ELSE IF impl = "lib" /\ lst[i]._channel # 0
      THEN [C EXCEPT ![lst[i]._channel] = ClosedChannel(@)]
      ELSE C

\* the listeners L after PulseListener close() of listener i
ListenersAfterClose(L, i) ==
  IF impl = "lib"
    THEN (IF lst[i].owns \/ lst[i]._channel # 0
            THEN [L EXCEPT ![i]._channel = 0, ![i]._consumerTag = 0] ELSE L)
    ELSE [L EXCEPT ![i]._channel = 0]

\* PulseListener close(), on the manager: an owned connection is closed
CloseConnectionPart(i) ==
  IF ClosesConnection(i)
    THEN IF impl = "lib" THEN LibClose ELSE SrcClose
    ELSE UNCHANGED connVars

\* PulseListener close() is called by the user
\* close() of listener i, leaving the listeners as L
CloseWith(i, L) ==
  /\ CloseConnectionPart(i)
  /\ lst' = L
  /\ channels' = ChannelsAfterClose(channels, i)
  /\ UNCHANGED <<tasks, tags, slugs>>

close(i) == CloseWith(i, ListenersAfterClose(lst, i))

\* channel.deleteQueue() answered: the queue is gone, then close()
DeleteOk(t) ==
  /\ tasks[t].pc = "delete"
  /\ channels[tasks[t].channel].open
  /\ LET i == tasks[t].listener IN
       /\ CloseConnectionPart(i)
       /\ lst' = ListenersAfterClose(lst, i)
       /\ channels' = ChannelsAfterClose(
                         [channels EXCEPT ![tasks[t].channel].queue = 0], i)
  /\ tasks' = [tasks EXCEPT ![t].pc = "done"]
  /\ UNCHANGED <<tags, slugs>>

\* a step of a call fails because its session or channel is gone; the
\* reconnect handler reports the failure of its call as a listener `error`
StepFail(t) ==
  /\ \/ tasks[t].pc = "channel" /\ sessions[tasks[t].sess] # "open"
     \/ /\ tasks[t].pc \in {"prefetch", "assert", "bind", "consume", "delete"}
        /\ ~channels[tasks[t].channel].open
  /\ tasks' = [tasks EXCEPT ![t] = FailedTask(@)]
  /\ lst' = IF tasks[t].origin = "reconnect"
              THEN [lst EXCEPT ![tasks[t].listener].events.error = @ + 1]
              ELSE lst
  /\ UNCHANGED <<connVars, channels, tags, slugs>>

\* what pause() of listener i does in lib: it returns the value of debug()
\* when there is no channel or no consumer tag, else it cancels the tag
LibPauseOutcome(i) ==
  IF lst[i]._channel = 0 \/ lst[i]._consumerTag = 0 THEN "returned" ELSE "cancelled"

\* what pause() of listener i does in src: it throws when there is no
\* channel, else it cancels whatever this._consumerTag holds
SrcPauseOutcome(i) ==
  IF lst[i]._channel = 0 THEN "thrown" ELSE "cancelled"

\* PulseListener.prototype.pause (lib)
LibPause(i) ==
  /\ impl = "lib"
  /\ LET c == lst[i]._channel
         tag == lst[i]._consumerTag
     IN IF LibPauseOutcome(i) = "returned"
          THEN UNCHANGED <<lst, channels>>
          ELSE /\ lst' = [lst EXCEPT ![i]._consumerTag = 0]
               /\ channels' = [channels EXCEPT ![c].consumers = @ \ {tag}]
  /\ tasks' = NotePause(tasks, i, TRUE)
  /\ UNCHANGED <<connVars, tags, slugs>>

\* PulseListener.pause (src): the tag is kept
SrcPause(i) ==
  /\ impl = "src"
  /\ LET c == lst[i]._channel
         tag == lst[i]._consumerTag
     IN channels' = IF SrcPauseOutcome(i) = "cancelled"
                      THEN [channels EXCEPT ![c].consumers = @ \ {tag}]
                      ELSE channels
  /\ UNCHANGED <<connVars, lst, tasks, tags, slugs>>

\* the channel error handler installed by connect(): a channel fails
ChannelError(c) ==
  /\ channels[c].open
  /\ Faults < MaxFaults
  /\ channels' = [channels EXCEPT ![c] = [ClosedChannel(@) EXCEPT !.failed = TRUE]]
  /\ lst' = [lst EXCEPT ![channels[c].listener]._channel = 0,
                        ![channels[c].listener].events.error = @ + 1]
  /\ UNCHANGED <<connVars, tasks, tags, slugs>>

\* does call t wait for the outcome that loop l announces
Awaits(t, l) ==
  /\ tasks[t].pc = "conn"
  /\ impl = "lib" => tasks[t].loop = l

\* the listeners L after the manager emitted `error`: owners re-emit it
AfterConnectionError(L) ==
  [i \in DOMAIN L |->
     IF L[i].owns THEN [L[i] EXCEPT !.events.error = @ + 1] ELSE L[i]]

\* the listeners L after the calls in F, started by reconnect handlers, failed
AfterFailedCalls(L, F) ==
  [i \in DOMAIN L |->
     [L[i] EXCEPT !.events.error =
        @ + Cardinality({t \in F : tasks[t].listener = i /\ tasks[t].origin = "reconnect"})]]

\* a dial succeeded: the calls waiting for the session ask it for a channel
ListenerDialOk(l) ==
  /\ IF impl = "lib" THEN LibDialOk(l) ELSE SrcDialOk(l)
  /\ tasks' = [t \in DOMAIN tasks |->
       IF Awaits(t, l)
         THEN [tasks[t] EXCEPT !.pc = "channel", !.sess = Len(sessions) + 1]
         ELSE tasks[t]]
  /\ UNCHANGED <<lst, channels, tags, slugs>>

\* a dial failed: if that ends the loop the waiting calls fail, and the lib
\* manager's `error` reaches the listeners that own it
ListenerDialFail(l) ==
  /\ Faults < MaxFaults
  /\ IF impl = "lib" THEN LibDialFail(l) ELSE SrcDialFail(l)
  /\ IF loops'[l].pc = "rejected"
       THEN LET F == {t \in DOMAIN tasks : Awaits(t, l)} IN
              /\ tasks' = [t \in DOMAIN tasks |->
                   IF t \in F THEN FailedTask(tasks[t]) ELSE tasks[t]]
              /\ lst' = IF impl = "lib"
                          THEN AfterFailedCalls(AfterConnectionError(lst), F)
                          ELSE lst
       ELSE UNCHANGED <<lst, tasks>>
  /\ UNCHANGED <<channels, tags, slugs>>

\* does the reconnect handler of listener i start a call
Reconnects(i) == lst[i].reconnect /\ lst[i]._channel # 0

\* a reconnect handler that would always call connect()
ReconnectKindAlwaysConnect(i) == "connect"

\* the call the reconnect handler of listener i starts
ReconnectKind(i) == IF lst[i]._consumerTag # 0 THEN "resume" ELSE "connect"

\* the calls after every listener from i on has handled `reconnect`; the
\* manager's connect() has already put the new loop in _connecting
RECURSIVE TasksAfterReconnect(_, _, _)
TasksAfterReconnect(T, i, promise) ==
  IF i > Len(lst) THEN T
  ELSE TasksAfterReconnect(
         IF Reconnects(i)
           THEN Append(T, NewTask(i, ReconnectKind(i), "reconnect", promise,
                                  lst[i]._channel, lst[i]._consumerTag # 0,
                                  lst[i]._bindings))
           ELSE T,
         i + 1, promise)

\* the listeners after each has handled `reconnect`
ListenersAfterReconnect ==
  [i \in DOMAIN lst |->
     IF ~lst[i].reconnect THEN [lst[i] EXCEPT !.events.error = @ + 1]
     ELSE IF lst[i]._channel # 0
       THEN [lst[i] EXCEPT !._channel = 0, !._consumerTag = 0]
       ELSE lst[i]]

\* the channels after the reconnect handlers invalidated theirs
InvalidatedChannels(C) ==
  [c \in DOMAIN C |->
     IF \E i \in DOMAIN lst : Reconnects(i) /\ lst[i]._channel = c
       THEN [C[c] EXCEPT !.invalidated = "true"] ELSE C[c]]

\* a session reports an error: the manager's handler runs, the session's
\* channels die, and the listeners handle the event the manager emits
ListenerOnError(s) ==
  /\ Faults < MaxFaults
  /\ IF impl = "lib" THEN LibOnError(s) ELSE SrcOnError(s)
  /\ IF connEvents'.reconnect > connEvents.reconnect
       THEN /\ tasks' = TasksAfterReconnect(tasks, 1,
                          [loop |-> _connecting', sess |-> Pending])
            /\ Len(tasks') <= MaxTasks
            /\ lst' = ListenersAfterReconnect
            /\ channels' = CloseSessionChannels(InvalidatedChannels(channels), s)
       ELSE /\ lst' = AfterConnectionError(lst)
            /\ channels' = CloseSessionChannels(channels, s)
            /\ UNCHANGED tasks
  /\ UNCHANGED <<tags, slugs>>

InitListener ==
  /\ impl \in {"lib", "src"}
  /\ options \in [retries : 0..MaxRetries, reconnect : BOOLEAN]
  /\ impl = "src" => options = [retries |-> 0, reconnect |-> FALSE]
  /\ now = 0
  /\ _conn = 0
  /\ _connecting = 0
  /\ _connectingFlag = FALSE
  /\ _reconnectAttempts = 0
  /\ _lastReconnect = 0
  /\ loops = <<>>
  /\ sessions = <<>>
  /\ calls = <<>>
  /\ connEvents = [error |-> 0, reconnect |-> 0, resets |-> 0]
  /\ dials = 0
  /\ closeCalled = FALSE
  /\ \E owns \in BOOLEAN, rec \in BOOLEAN :
       /\ impl = "src" => ~rec
       /\ (impl = "lib" /\ owns) => options = [retries |-> OwnerRetries, reconnect |-> TRUE]
       /\ lst = <<[owns |-> owns, reconnect |-> rec, _channel |-> 0,
                   _consumerTag |-> 0, _bindings |-> <<>>,
                   _queueName |-> IF impl = "lib" THEN 1 ELSE 0,
                   events |-> [error |-> 0, reconnect |-> 0]]>>
  /\ channels = <<>>
  /\ tasks = <<>>
  /\ tags = 0
  /\ slugs = IF impl = "lib" THEN 1 ELSE 0
  /\ deliveries = <<>>
  /\ ws = WsIdle
  /\ tp = TpIdle
  /\ lk = LkIdle
  /\ rk = RkIdle

NextListener ==
  \/ \E i \in DOMAIN lst : connect(i) /\ UNCHANGED handleVars
  \/ \E i \in DOMAIN lst : resume(i) /\ UNCHANGED handleVars
  \/ \E i \in DOMAIN lst : deleteQueue(i) /\ UNCHANGED handleVars
  \/ \E i \in DOMAIN lst : bind(i) /\ UNCHANGED handleVars
  \/ \E i \in DOMAIN lst : close(i) /\ UNCHANGED handleVars
  \/ \E i \in DOMAIN lst : LibPause(i) /\ UNCHANGED handleVars
  \/ \E i \in DOMAIN lst : SrcPause(i) /\ UNCHANGED handleVars
  \/ \E t \in DOMAIN tasks : ChannelCreated(t) /\ UNCHANGED handleVars
  \/ \E t \in DOMAIN tasks : PrefetchOk(t) /\ UNCHANGED handleVars
  \/ \E t \in DOMAIN tasks : AssertOk(t) /\ UNCHANGED handleVars
  \/ \E t \in DOMAIN tasks : BindOk(t) /\ UNCHANGED handleVars
  \/ \E t \in DOMAIN tasks : ConsumeOk(t) /\ UNCHANGED handleVars
  \/ \E t \in DOMAIN tasks : DeleteOk(t) /\ UNCHANGED handleVars
  \/ \E t \in DOMAIN tasks : StepFail(t) /\ UNCHANGED handleVars
  \/ \E c \in DOMAIN channels : ChannelError(c) /\ UNCHANGED handleVars
  \/ \E l \in DOMAIN loops : LibWake(l) /\ UNCHANGED lstVars
  \/ \E l \in DOMAIN loops : LibDial(l) /\ UNCHANGED lstVars
  \/ \E l \in DOMAIN loops : ListenerDialOk(l) /\ UNCHANGED handleVars
  \/ \E l \in DOMAIN loops : ListenerDialFail(l) /\ UNCHANGED handleVars
  \/ \E s \in DOMAIN sessions : ListenerOnError(s) /\ UNCHANGED handleVars

SpecListener == InitListener /\ [][NextListener]_vars

\* options.reconnect as the constructor is given it
ReconnectGiven == {"undefined", "true", "false"}

\* a default that would leave reconnect off whatever the queue
ReconnectOptionOffByDefault(given, named) == given = "true"

\* _.defaults(..., {reconnect: options.queueName ? true : false}): the option
\* of a lib listener, the default applying when none is given
ReconnectOption(given, named) ==
  IF given = "undefined" THEN named ELSE given = "true"

\* a lib listener as its constructor leaves it, with the options it was given
InitReconnect ==
  /\ impl = "lib"
  /\ options \in [retries : 0..MaxRetries, reconnect : BOOLEAN]
  /\ now = 0
  /\ _conn = 0
  /\ _connecting = 0
  /\ _connectingFlag = FALSE
  /\ _reconnectAttempts = 0
  /\ _lastReconnect = 0
  /\ loops = <<>>
  /\ sessions = <<>>
  /\ calls = <<>>
  /\ connEvents = [error |-> 0, reconnect |-> 0, resets |-> 0]
  /\ dials = 0
  /\ closeCalled = FALSE
  /\ \E owns \in BOOLEAN, named \in BOOLEAN, given \in ReconnectGiven :
       /\ owns => options = [retries |-> OwnerRetries, reconnect |-> TRUE]
       /\ lst = <<[owns |-> owns, reconnect |-> ReconnectOption(given, named),
                   named |-> named, given |-> given, _channel |-> 0,
                   _consumerTag |-> 0, _bindings |-> <<>>, _queueName |-> 1,
                   events |-> [error |-> 0, reconnect |-> 0]]>>
  /\ channels = <<>>
  /\ tasks = <<>>
  /\ tags = 0
  /\ slugs = 1
  /\ deliveries = <<>>
  /\ ws = WsIdle
  /\ tp = TpIdle
  /\ lk = LkIdle
  /\ rk = RkIdle

\* the listener connects and consumes while sessions come and go
NextReconnect ==
  \/ \E i \in DOMAIN lst : connect(i) /\ UNCHANGED handleVars
  \/ \E i \in DOMAIN lst : resume(i) /\ UNCHANGED handleVars
  \/ \E t \in DOMAIN tasks : ChannelCreated(t) /\ UNCHANGED handleVars
  \/ \E t \in DOMAIN tasks : PrefetchOk(t) /\ UNCHANGED handleVars
  \/ \E t \in DOMAIN tasks : AssertOk(t) /\ UNCHANGED handleVars
  \/ \E t \in DOMAIN tasks : BindOk(t) /\ UNCHANGED handleVars
  \/ \E t \in DOMAIN tasks : ConsumeOk(t) /\ UNCHANGED handleVars
  \/ \E t \in DOMAIN tasks : StepFail(t) /\ UNCHANGED handleVars
  \/ \E l \in DOMAIN loops : LibWake(l) /\ UNCHANGED lstVars
  \/ \E l \in DOMAIN loops : LibDial(l) /\ UNCHANGED lstVars
  \/ \E l \in DOMAIN loops : ListenerDialOk(l) /\ UNCHANGED handleVars
  \/ \E l \in DOMAIN loops : ListenerDialFail(l) /\ UNCHANGED handleVars
  \/ \E s \in DOMAIN sessions : ListenerOnError(s) /\ UNCHANGED handleVars

SpecReconnect == InitReconnect /\ [][NextReconnect]_vars

\* ------------------------------------- a listener closed on a shared manager

\* has every call of listener i settled
CallsSettled(i) ==
  \A t \in DOMAIN tasks : tasks[t].listener = i => tasks[t].pc \in {"done", "failed"}

\* close() of listener i once its calls have settled; the history field
\* `closed` records that close() has completed
closeSettled(i) ==
  /\ CallsSettled(i)
  /\ ~lst[i].closed
  /\ CloseWith(i, [ListenersAfterClose(lst, i) EXCEPT ![i].closed = TRUE])

\* a listener on a manager it was given (the manager outlives the listener)
InitClosed ==
  /\ impl \in {"lib", "src"}
  /\ options \in [retries : 0..MaxRetries, reconnect : BOOLEAN]
  /\ impl = "src" => options = [retries |-> 0, reconnect |-> FALSE]
  /\ now = 0
  /\ _conn = 0
  /\ _connecting = 0
  /\ _connectingFlag = FALSE
  /\ _reconnectAttempts = 0
  /\ _lastReconnect = 0
  /\ loops = <<>>
  /\ sessions = <<>>
  /\ calls = <<>>
  /\ connEvents = [error |-> 0, reconnect |-> 0, resets |-> 0]
  /\ dials = 0
  /\ closeCalled = FALSE
  /\ \E rec \in BOOLEAN :
       /\ impl = "src" => ~rec
       /\ lst = <<[owns |-> FALSE, reconnect |-> rec, closed |-> FALSE,
                   _channel |-> 0, _consumerTag |-> 0, _bindings |-> <<>>,
                   _queueName |-> IF impl = "lib" THEN 1 ELSE 0,
                   events |-> [error |-> 0, reconnect |-> 0]]>>
  /\ channels = <<>>
  /\ tasks = <<>>
  /\ tags = 0
  /\ slugs = IF impl = "lib" THEN 1 ELSE 0
  /\ deliveries = <<>>
  /\ ws = WsIdle
  /\ tp = TpIdle
  /\ lk = LkIdle
  /\ rk = RkIdle

\* the listener is used, closed and then left alone while the manager's
\* sessions and channels come and go
NextClosed ==
  \/ \E i \in DOMAIN lst : ~lst[i].closed /\ connect(i) /\ UNCHANGED handleVars
  \/ \E i \in DOMAIN lst : ~lst[i].closed /\ resume(i) /\ UNCHANGED handleVars
  \/ \E i \in DOMAIN lst : closeSettled(i) /\ UNCHANGED handleVars
  \/ \E t \in DOMAIN tasks : ChannelCreated(t) /\ UNCHANGED handleVars
  \/ \E t \in DOMAIN tasks : PrefetchOk(t) /\ UNCHANGED handleVars
  \/ \E t \in DOMAIN tasks : AssertOk(t) /\ UNCHANGED handleVars
  \/ \E t \in DOMAIN tasks : BindOk(t) /\ UNCHANGED handleVars
  \/ \E t \in DOMAIN tasks : ConsumeOk(t) /\ UNCHANGED handleVars
  \/ \E t \in DOMAIN tasks : StepFail(t) /\ UNCHANGED handleVars
  \/ \E c \in DOMAIN channels : ChannelError(c) /\ UNCHANGED handleVars
  \/ \E l \in DOMAIN loops : LibWake(l) /\ UNCHANGED lstVars
  \/ \E l \in DOMAIN loops : LibDial(l) /\ UNCHANGED lstVars
  \/ \E l \in DOMAIN loops : ListenerDialOk(l) /\ UNCHANGED handleVars
  \/ \E l \in DOMAIN loops : ListenerDialFail(l) /\ UNCHANGED handleVars
  \/ \E s \in DOMAIN sessions : ListenerOnError(s) /\ UNCHANGED handleVars

SpecClosed == InitClosed /\ [][NextClosed]_vars

\* ------------------------------------ _handle: parsing the routing key

\* the characters of a routing key
KeyChars == {"a", "b", "."}

\* what shift() and pop() return on an empty array
Undefined == <<"undefined">>

SeqsUpTo(S, n) == UNION {[1..k -> S] : k \in 0..n}

\* the position of the first "." of str from position k on, 0 if there is none
RECURSIVE DotFrom(_, _)
DotFrom(str, k) ==
  IF k > Len(str) THEN 0
  ELSE IF str[k] = "." THEN k
  ELSE DotFrom(str, k + 1)

\* message.routingKey.split('.')
RECURSIVE Split(_)
Split(str) ==
  LET d == DotFrom(str, 1) IN
    IF d = 0 THEN <<str>>
    ELSE <<SubSeq(str, 1, d - 1)>> \o Split(SubSeq(str, d + 1, Len(str)))

\* keys.join('.')
RECURSIVE Join(_)
Join(keys) ==
  IF keys = <<>> THEN <<>>
  ELSE IF Len(keys) = 1 THEN keys[1]
  ELSE keys[1] \o <<".">> \o Join(Tail(keys))

\* mutant: shift() reads the last element
ShiftTakesLast(keys) == IF keys = <<>> THEN Undefined ELSE keys[Len(keys)]

\* the value of keys.shift()
Shift(keys) == IF keys = <<>> THEN Undefined ELSE Head(keys)

\* mutant: the fields after the multi-word field are read from the front
PopTakesFirst(keys) == Shift(keys)

\* the value of keys.pop()
Pop(keys) == IF keys = <<>> THEN Undefined ELSE keys[Len(keys)]

\* keys after shift()
Shifted(keys) == IF keys = <<>> THEN keys ELSE Tail(keys)

\* keys after pop()
Popped(keys) == IF keys = <<>> THEN keys ELSE SubSeq(keys, 1, Len(keys) - 1)

\* the first loop: single-word fields from the beginning, up to the first
\* multi-word field (ref[i] is the field's multipleWords)
RECURSIVE FrontLoop(_, _, _, _)
FrontLoop(ref, i, keys, routing) ==
  IF i > Len(ref) \/ ref[i]
    THEN [i |-> i, keys |-> keys, routing |-> routing]
    ELSE FrontLoop(ref, i + 1, Shifted(keys), [routing EXCEPT ![i] = Shift(keys)])

\* the second loop: single-word fields from the end, down to field i or to
\* another multi-word field
RECURSIVE BackLoop(_, _, _, _, _)
BackLoop(ref, i, j, keys, routing) ==
  IF j <= i \/ ref[j]
    THEN [j |-> j, keys |-> keys, routing |-> routing]
    ELSE BackLoop(ref, i, j - 1, Popped(keys), [routing EXCEPT ![j] = Pop(keys)])

\* an assert that lets every pair of indices through
SanityCheckSkipped(i, j) == TRUE

\* assert(i == j): the loop from the end has come down to the multi-word
\* field the loop from the front stopped at
SanityCheck(i, j) == i = j

\* the try block: the parsed routing, or a failure when the assert throws
ParsedRouting(ref, key) ==
  LET f == FrontLoop(ref, 1, Split(key), [k \in 1..Len(ref) |-> Undefined]) IN
    IF f.i > Len(ref)
      THEN [stage |-> "parsed", routing |-> f.routing]
      ELSE LET b == BackLoop(ref, f.i, Len(ref), f.keys, f.routing) IN
             IF ~SanityCheck(f.i, b.j)
               THEN [stage |-> "failed", routing |-> <<>>]
               ELSE [stage |-> "parsed",
                     routing |-> [b.routing EXCEPT ![f.i] = Join(b.keys)]]

\* _handle parses the routing key of the message it received
ParseRoutingKey ==
  /\ rk.stage = "received"
  /\ LET r == ParsedRouting(rk.reference, rk.routingKey) IN
       rk' = [rk EXCEPT !.routing = r.routing, !.stage = r.stage]

parseVars == <<connVars, lst, channels, tasks, tags, slugs, deliveries, ws, tp, lk>>

\* a message with any routing key arrives for a binding with any reference
InitParse ==
  /\ impl = "lib"
  /\ options = [retries |-> 0, reconnect |-> FALSE]
  /\ now = 0
  /\ _conn = 0
  /\ _connecting = 0
  /\ _connectingFlag = FALSE
  /\ _reconnectAttempts = 0
  /\ _lastReconnect = 0
  /\ loops = <<>>
  /\ sessions = <<>>
  /\ calls = <<>>
  /\ connEvents = [error |-> 0, reconnect |-> 0, resets |-> 0]
  /\ dials = 0
  /\ closeCalled = FALSE
  /\ lst = <<>>
  /\ channels = <<>>
  /\ tasks = <<>>
  /\ tags = 0
  /\ slugs = 0
  /\ deliveries = <<>>
  /\ ws = WsIdle
  /\ tp = TpIdle
  /\ lk = LkIdle
  /\ \E ref \in SeqsUpTo(BOOLEAN, MaxFields) \ {<<>>}, key \in SeqsUpTo(KeyChars, MaxKeyLen) :
       rk = [reference |-> ref, routingKey |-> key, routing |-> <<>>,
             stage |-> "received"]

NextParse ==
  \/ ParseRoutingKey /\ UNCHANGED parseVars

SpecParse == InitParse /\ [][NextParse]_vars

\* ------------------------------- _handle: finding the routing key reference

\* how many bindings a listener of the lookup has
MaxLookupBindings == 3

\* the exchanges messages come from
Exchanges == {"x", "y"}

\* a binding made without a routingKeyReference
NoReference == [given |-> FALSE, fields |-> <<>>]

\* a routingKeyReference: for each field, is it multipleWords
Reference(fields) == [given |-> TRUE, fields |-> fields]

\* what bind() may have stored as binding.routingKeyReference
References == {NoReference, Reference(<<FALSE>>), Reference(<<TRUE>>)}

\* the entries of this._bindings
Bindings == [exchange : Exchanges, routingKeyReference : References]

\* binding.exchange === message.exchange && binding.routingKeyReference
Matches(b, ex) == b.exchange = ex /\ b.routingKeyReference.given

\* the values routingKeyReference can end up with: null, the reference of a
\* binding, a binding object itself; or the lookup has thrown
Null == [kind |-> "null", fields |-> <<>>]

ReferenceOf(b) == [kind |-> "reference", fields |-> b.routingKeyReference.fields]

BindingObject == [kind |-> "binding", fields |-> <<>>]

Thrown == [kind |-> "thrown", fields |-> <<>>]

\* lib: this._bindings.forEach assigns routingKeyReference at every match
RECURSIVE ForEachLookup(_, _, _, _)
ForEachLookup(bs, ex, k, found) ==
  IF k > Len(bs) THEN found
  ELSE ForEachLookup(bs, ex, k + 1,
                     IF Matches(bs[k], ex) THEN ReferenceOf(bs[k]) ELSE found)

\* src: the callback of this._bindings.reduce returns the reference of the
\* binding at hand or null, whatever the accumulator holds
RECURSIVE ReduceFrom(_, _, _, _)
ReduceFrom(bs, ex, k, acc) ==
  IF k > Len(bs) THEN acc
  ELSE ReduceFrom(bs, ex, k + 1,
                  IF Matches(bs[k], ex) THEN ReferenceOf(bs[k]) ELSE Null)

\* src: reduce without an initial value throws on an empty array, and starts
\* from the first binding object, calling the callback from the second on
ReduceLookup(bs, ex) ==
  IF bs = <<>> THEN Thrown ELSE ReduceFrom(bs, ex, 2, BindingObject)

\* the routingKeyReference _handle finds for a message from exchange ex
LookupReference(bs, ex) ==
  IF impl = "lib" THEN ForEachLookup(bs, ex, 1, Null) ELSE ReduceLookup(bs, ex)

\* what _handle then does about message.routing: nothing for a falsy value,
\* parse with a reference; a binding object has no length, so no field is
\* read and an empty routing is attached
RoutingAfterLookup(found) ==
  CASE found.kind = "null" -> "absent"
    [] found.kind = "reference" -> "parsed"
    [] found.kind = "binding" -> "empty"
    [] found.kind = "thrown" -> "thrown"

\* _handle looks up the reference for the message it received
Lookup ==
  /\ lk.stage = "received"
  /\ lk' = [lk EXCEPT !.found = LookupReference(lk.bindings, lk.exchange),
                      !.stage = "done"]

lookupVars == <<connVars, lst, channels, tasks, tags, slugs, deliveries, ws, tp, rk>>

InitLookup ==
  /\ impl \in {"lib", "src"}
  /\ options = [retries |-> 0, reconnect |-> FALSE]
  /\ now = 0
  /\ _conn = 0
  /\ _connecting = 0
  /\ _connectingFlag = FALSE
  /\ _reconnectAttempts = 0
  /\ _lastReconnect = 0
  /\ loops = <<>>
  /\ sessions = <<>>
  /\ calls = <<>>
  /\ connEvents = [error |-> 0, reconnect |-> 0, resets |-> 0]
  /\ dials = 0
  /\ closeCalled = FALSE
  /\ lst = <<>>
  /\ channels = <<>>
  /\ tasks = <<>>
  /\ tags = 0
  /\ slugs = 0
  /\ deliveries = <<>>
  /\ ws = WsIdle
  /\ tp = TpIdle
  /\ rk = RkIdle
  /\ \E bs \in SeqsUpTo(Bindings, MaxLookupBindings), ex \in Exchanges :
       lk = [bindings |-> bs, exchange |-> ex, stage |-> "received", found |-> Null]

NextLookup ==
  \/ Lookup /\ UNCHANGED lookupVars

SpecLookup == InitLookup /\ [][NextLookup]_vars

\* --------------------------------------------- PulseListener._handle

\* the channel ack and nack are called on: lib uses the channel the message
\* arrived on, src whatever this._channel is at that moment
AckTarget(d) ==
  IF impl = "lib" THEN d.channel ELSE lst[d.listener]._channel

\* channel.ack / channel.nack throw on null and on a closed channel
CanSend(c) == c # 0 /\ channels[c].open

\* a requeue decision that would ignore the redelivered flag
RequeueAlways(d) == TRUE

\* lines 512-519: requeue unless the message was already redelivered
Requeue(d) == ~d.redelivered

\* the rejection handler of the chain: skip when the lib channel is
\* invalidated, else nack; a failing nack is emitted as `error`
NackPath(d, pend) ==
  IF impl = "lib" /\ channels[d.channel].invalidated = "true"
    THEN [d EXCEPT !.stage = "settled", !.skipped = TRUE]
    ELSE [d EXCEPT !.stage = "settled",
                   !.nack = IF CanSend(AckTarget(d)) THEN "sent" ELSE "failed",
                   !.requeue = Requeue(d),
                   !.target = AckTarget(d),
                   !.pendingAtSend = pend,
                   !.errors = IF CanSend(AckTarget(d)) THEN @ ELSE @ + 1]

\* the fulfilment handler of the chain: ack; a failing ack rejects into the
\* rejection handler
AckPath(d) ==
  IF CanSend(AckTarget(d))
    THEN [d EXCEPT !.stage = "settled", !.ack = "sent", !.target = AckTarget(d)]
    ELSE NackPath([d EXCEPT !.ack = "failed"], 0)

\* the handlers of delivery record d that have not settled
PendingHandlers(d) == {k \in DOMAIN d.handlers : d.handlers[k] = "pending"}

\* the listeners after the chain of a delivery ran: d before, e after
AfterChain(d, e) ==
  [lst EXCEPT ![d.listener].events.error = @ + (e.errors - d.errors)]

\* the routing key of the messages delivered
DeliveredKey == <<"a", ".", "b">>

\* the routingKeyReference _handle finds for a message: none, one with a
\* single multi-word field, or one with two (on which the assert throws)
DeliveredReferences == {<<>>, <<FALSE, TRUE>>, <<TRUE, TRUE>>}

\* how the parse of a decoded message with reference ref ends
ParseOf(dec, ref) ==
  IF ~dec \/ ref = <<>> THEN "none" ELSE ParsedRouting(ref, DeliveredKey).stage

\* a map over the handlers that would call the first one only
InvokedFirstOnly(n) == [k \in 1..(IF n > 0 THEN 1 ELSE 0) |-> "pending"]

\* this.listeners('message').map(...): one call per registered handler, each
\* in a promise of its own
Invoked(n) == [k \in 1..n |-> "pending"]

\* a message as _handle receives it, with n handlers registered and ref the
\* routing key reference of its exchange
NewDelivery(c, dec, red, n, ref) ==
  [channel |-> c, listener |-> channels[c].listener, decodable |-> dec,
   redelivered |-> red, registered |-> n, parse |-> ParseOf(dec, ref),
   routing |-> ParseOf(dec, ref) = "parsed",
   handlers |-> Invoked(n),
   stage |-> "running", ack |-> "none", nack |-> "none", requeue |-> FALSE,
   target |-> 0, skipped |-> FALSE, pendingAtSend |-> 0, errors |-> 0]

\* _handle stops before the handlers are called
Crashed(d) == [d EXCEPT !.stage = "crashed", !.handlers = <<>>]

\* mutant: an error of the parse leaves _handle
AfterParseUncaught(d) == IF d.parse = "failed" THEN Crashed(d) ELSE d

\* the catch around the parse only logs: _handle goes on with d as it is
AfterParse(d) == d

\* the broker delivers a message to a consumer and _handle runs: JSON.parse
\* throws on an undecodable body; with no handler the chain runs at once;
\* at most max messages are delivered
DeliverUpTo(c, max) ==
  /\ channels[c].open
  /\ channels[c].consumers # {}
  /\ lst[channels[c].listener]._bindings # <<>>
  /\ Len(deliveries) < max
  /\ \E dec \in BOOLEAN, red \in BOOLEAN, n \in 0..MaxHandlers,
        ref \in DeliveredReferences :
       LET d == NewDelivery(c, dec, red, n, ref)
           p == AfterParse(d)
           e == IF ~dec THEN Crashed(d)
                ELSE IF p.stage = "crashed" THEN p
                ELSE IF n = 0 THEN AckPath(d)
                ELSE d
       IN /\ deliveries' = Append(deliveries, e)
          /\ lst' = AfterChain(d, e)
  /\ UNCHANGED <<connVars, channels, tasks, tags, slugs>>

Deliver(c) == DeliverUpTo(c, MaxDeliveries)

\* a handler of delivery x fulfils: when it is the last one Promise.all
\* fulfils and the chain runs
HandlerOk(x, k) ==
  /\ deliveries[x].handlers[k] = "pending"
  /\ LET d == [deliveries[x] EXCEPT !.handlers[k] = "ok"]
         e == IF d.stage = "running" /\ \A h \in DOMAIN d.handlers : d.handlers[h] = "ok"
                THEN AckPath(d) ELSE d
     IN /\ deliveries' = [deliveries EXCEPT ![x] = e]
        /\ lst' = AfterChain(d, e)
  /\ UNCHANGED <<connVars, channels, tasks, tags, slugs>>

\* a handler of delivery x rejects: Promise.all rejects on the first
\* rejection and the chain runs, whatever the other handlers are doing
HandlerFail(x, k) ==
  /\ deliveries[x].handlers[k] = "pending"
  /\ LET d == [deliveries[x] EXCEPT !.handlers[k] = "failed"]
         e == IF d.stage = "running"
                THEN NackPath(d, Cardinality(PendingHandlers(d))) ELSE d
     IN /\ deliveries' = [deliveries EXCEPT ![x] = e]
        /\ lst' = AfterChain(d, e)
  /\ UNCHANGED <<connVars, channels, tasks, tags, slugs>>

\* a listener that has connected, bound one exchange and is consuming
InitHandle ==
  /\ impl \in {"lib", "src"}
  /\ options = IF impl = "lib" THEN [retries |-> 1, reconnect |-> TRUE]
                               ELSE [retries |-> 0, reconnect |-> FALSE]
  /\ now = 0
  /\ _conn = 1
  /\ _connecting = IF impl = "lib" THEN 1 ELSE 0
  /\ _connectingFlag = FALSE
  /\ _reconnectAttempts = 0
  /\ _lastReconnect = 0
  /\ loops = <<[pc |-> "resolved", n |-> 1,
                left |-> IF impl = "lib" THEN 0 ELSE SrcRetries, sess |-> 1]>>
  /\ sessions = <<"open">>
  /\ calls = <<>>
  /\ connEvents = [error |-> 0, reconnect |-> 0, resets |-> 0]
  /\ dials = 1
  /\ closeCalled = FALSE
  /\ lst = <<[owns |-> FALSE, reconnect |-> impl = "lib", _channel |-> 1,
              _consumerTag |-> 1, _bindings |-> <<1>>, _queueName |-> 1,
              events |-> [error |-> 0, reconnect |-> 0]]>>
  /\ channels = <<[session |-> 1, listener |-> 1, open |-> TRUE, failed |-> FALSE,
                   invalidated |-> IF impl = "lib" THEN "false" ELSE "undefined",
                   prefetch |-> TRUE, queue |-> 1, bound |-> <<1>>,
                   consumers |-> {1}]>>
  /\ tasks = <<[listener |-> 1, kind |-> "resume", origin |-> "user", pc |-> "done",
                loop |-> 1, sess |-> 1, channel |-> 1, tag |-> 1, old |-> 0,
                wasConsuming |-> FALSE, bindingsAtEvent |-> <<>>, issued |-> 0,
                pausedSince |-> FALSE]>>
  /\ tags = 1
  /\ slugs = 1
  /\ deliveries = <<>>
  /\ ws = WsIdle
  /\ tp = TpIdle
  /\ lk = LkIdle
  /\ rk = RkIdle

NextHandle ==
  \/ \E c \in DOMAIN channels : Deliver(c) /\ UNCHANGED auxVars
  \/ \E x \in DOMAIN deliveries : \E k \in DOMAIN deliveries[x].handlers : HandlerOk(x, k) /\ UNCHANGED auxVars
  \/ \E x \in DOMAIN deliveries : \E k \in DOMAIN deliveries[x].handlers : HandlerFail(x, k) /\ UNCHANGED auxVars
  \/ \E i \in DOMAIN lst : connect(i) /\ UNCHANGED handleVars
  \/ \E i \in DOMAIN lst : close(i) /\ UNCHANGED handleVars
  \/ \E t \in DOMAIN tasks : ChannelCreated(t) /\ UNCHANGED handleVars
  \/ \E t \in DOMAIN tasks : PrefetchOk(t) /\ UNCHANGED handleVars
  \/ \E t \in DOMAIN tasks : AssertOk(t) /\ UNCHANGED handleVars
  \/ \E t \in DOMAIN tasks : BindOk(t) /\ UNCHANGED handleVars
  \/ \E t \in DOMAIN tasks : ConsumeOk(t) /\ UNCHANGED handleVars
  \/ \E t \in DOMAIN tasks : StepFail(t) /\ UNCHANGED handleVars
  \/ \E c \in DOMAIN channels : ChannelError(c) /\ UNCHANGED handleVars
  \/ \E l \in DOMAIN loops : LibWake(l) /\ UNCHANGED lstVars
  \/ \E l \in DOMAIN loops : LibDial(l) /\ UNCHANGED lstVars
  \/ \E l \in DOMAIN loops : ListenerDialOk(l) /\ UNCHANGED handleVars
  \/ \E l \in DOMAIN loops : ListenerDialFail(l) /\ UNCHANGED handleVars
  \/ \E s \in DOMAIN sessions : ListenerOnError(s) /\ UNCHANGED handleVars

SpecHandle == InitHandle /\ [][NextHandle]_vars

\* messages in flight together, up to the prefetch limit
MaxPrefetch == 2

\* the handlers of several messages in flight on a healthy channel
NextHandlers ==
  \/ \E c \in DOMAIN channels : DeliverUpTo(c, MaxPrefetch) /\ UNCHANGED auxVars
  \/ \E x \in DOMAIN deliveries : \E k \in DOMAIN deliveries[x].handlers : HandlerOk(x, k) /\ UNCHANGED auxVars
  \/ \E x \in DOMAIN deliveries : \E k \in DOMAIN deliveries[x].handlers : HandlerFail(x, k) /\ UNCHANGED auxVars

SpecHandlers == InitHandle /\ [][NextHandlers]_vars

\* ------------------------------- two PulseListeners, one PulseConnection

\* a PulseListener constructed on an external connection, reconnect off;
\* lib names the anonymous queue in the constructor, src in connect()
SharedListener(name) ==
  [owns |-> FALSE, reconnect |-> FALSE, _channel |-> 0, _consumerTag |-> 0,
   _bindings |-> <<>>, _queueName |-> IF impl = "lib" THEN name ELSE 0,
   events |-> [error |-> 0, reconnect |-> 0]]

InitShared ==
  /\ impl \in {"lib", "src"}
  /\ options = [retries |-> 0, reconnect |-> FALSE]
  /\ now = 0
  /\ _conn = 0
  /\ _connecting = 0
  /\ _connectingFlag = FALSE
  /\ _reconnectAttempts = 0
  /\ _lastReconnect = 0
  /\ loops = <<>>
  /\ sessions = <<>>
  /\ calls = <<>>
  /\ connEvents = [error |-> 0, reconnect |-> 0, resets |-> 0]
  /\ dials = 0
  /\ closeCalled = FALSE
  /\ lst = <<SharedListener(1), SharedListener(2)>>
  /\ channels = <<>>
  /\ tasks = <<>>
  /\ tags = 0
  /\ slugs = IF impl = "lib" THEN 2 ELSE 0
  /\ deliveries = <<>>
  /\ ws = WsIdle
  /\ tp = TpIdle
  /\ lk = LkIdle
  /\ rk = RkIdle

NextShared ==
  \/ \E i \in DOMAIN lst : resume(i) /\ UNCHANGED handleVars
  \/ \E i \in DOMAIN lst : bind(i) /\ UNCHANGED handleVars
  \/ \E i \in DOMAIN lst : close(i) /\ UNCHANGED handleVars
  \/ \E t \in DOMAIN tasks : ChannelCreated(t) /\ UNCHANGED handleVars
  \/ \E t \in DOMAIN tasks : PrefetchOk(t) /\ UNCHANGED handleVars
  \/ \E t \in DOMAIN tasks : AssertOk(t) /\ UNCHANGED handleVars
  \/ \E t \in DOMAIN tasks : BindOk(t) /\ UNCHANGED handleVars
  \/ \E t \in DOMAIN tasks : ConsumeOk(t) /\ UNCHANGED handleVars
  \/ \E t \in DOMAIN tasks : StepFail(t) /\ UNCHANGED handleVars
  \/ \E l \in DOMAIN loops : LibDial(l) /\ UNCHANGED lstVars
  \/ \E l \in DOMAIN loops : ListenerDialOk(l) /\ UNCHANGED handleVars

SpecShared == InitShared /\ [][NextShared]_vars

\* ------------------------------------------------------------ WebListener

\* src/src/weblistener.js READY_STATE.CLOSED: the value close() compares
\* this.socket.readyState with
READY_STATE_CLOSED == 4

\* the readyState values a socket reports (as READYSTATE of
\* src/lib/wslistener.js lists them)
SocketConnecting == 0
SocketOpen == 1
SocketClosing == 2
SocketClosed == 3

\* does close() return at once
WsCloseReturnsEarly == ws.socket = NoSocket \/ ws.socket = READY_STATE_CLOSED

\* the readyState after socket.close(): CLOSING unless closing or closed already
AfterSocketClose(r) ==
  IF r \in {SocketConnecting, SocketOpen} THEN SocketClosing ELSE r

\* WebListener.connect: a new socket, not yet open
WsConnect ==
  /\ ws.socket \in {NoSocket, SocketClosed}
  /\ ws.sockets < MaxSockets
  /\ ws' = [ws EXCEPT !.socket = SocketConnecting, !.sockets = @ + 1]

\* the payloads and the events of the messages the server sends
Payloads == {"p", "q"}

ReplyEvents == {"ready", "bound", "message", "error", "unknown"}

\* the requests R after _send has sent n more: each gets a new slugid and a
\* pending promise listed in _pendingPromises
RECURSIVE Sent(_, _)
Sent(R, n) ==
  IF n = 0 THEN R
  ELSE Sent(Append(R, [id |-> Len(R) + 1, state |-> "pending", value |-> "",
                       listed |-> TRUE]), n - 1)

\* the socket opens: connect() sends a bind request for every binding declared
WsOpen ==
  /\ ws.socket = SocketConnecting
  /\ Len(ws.requests) + ws._bindings <= MaxRequests
  /\ ws' = [ws EXCEPT !.socket = SocketOpen, !.requests = Sent(@, ws._bindings)]

\* WebListener.bind: the binding is stored, and sent when the socket is open
WsBind ==
  /\ ws._bindings < MaxBindings
  /\ ws.socket = SocketOpen => Len(ws.requests) < MaxRequests
  /\ ws' = [ws EXCEPT !._bindings = @ + 1,
                      !.requests = IF ws.socket = SocketOpen THEN Sent(@, 1) ELSE @]

\* _send on an open socket (it throws on any other)
WsSend ==
  /\ ws.socket = SocketOpen
  /\ Len(ws.requests) < MaxRequests
  /\ ws' = [ws EXCEPT !.requests = Sent(@, 1)]

\* mutant: a reply settles every listed request
ForReplyAny(r, i) == r.listed

\* is r the request that a message with id i answers
ForReply(r, i) == r.listed /\ r.id = i

\* a promise after resolve(p) or reject(p): only a pending one changes
Settled(r, ev, p) ==
  IF r.state = "pending"
    THEN [r EXCEPT !.state = IF ev = "error" THEN "rejected" ELSE "resolved",
                   !.value = p]
    ELSE r

\* onMessage looks up message.id: src settles the request and takes it off
\* _pendingPromises, lib settles it and leaves it there
AfterReply(R, i, ev, p) ==
  [k \in DOMAIN R |->
     IF ForReply(R[k], i)
       THEN [Settled(R[k], ev, p) EXCEPT !.listed = impl = "lib"]
       ELSE R[k]]

\* does onMessage emit `error`: for an error event (lib returns before the
\* emit when the id named a request) and for an unknown event
ReplyEmitsError(R, i, ev) ==
  \/ ev = "unknown"
  \/ ev = "error" /\ (impl = "lib" => \A k \in DOMAIN R : ~ForReply(R[k], i))

\* onMessage for a message with id i, event ev and payload p
WsReply(i, ev, p) ==
  /\ ws.socket = SocketOpen
  /\ ReplyEmitsError(ws.requests, i, ev) => ws.errors < MaxFaults
  /\ ws' = [ws EXCEPT !.requests = AfterReply(@, i, ev, p),
                      !.errors = IF ReplyEmitsError(ws.requests, i, ev) THEN @ + 1 ELSE @]

\* the socket reaches CLOSED: onClose emits `close`, which resolves the
\* promises close() returned
WsSocketClosed ==
  /\ ws.socket \in {SocketConnecting, SocketOpen, SocketClosing}
  /\ ws' = [ws EXCEPT !.socket = SocketClosed,
                      !.closeEvents = @ + 1,
                      !.closes = [k \in DOMAIN @ |-> "resolved"]]

\* WebListener.onError: the socket reports an error, the listener emits `error`
WsSocketError ==
  /\ ws.socket \in {SocketConnecting, SocketOpen, SocketClosing}
  /\ ws.errors < MaxFaults
  /\ ws' = [ws EXCEPT !.errors = @ + 1]

\* WebListener.close
WsClose ==
  /\ Len(ws.closes) < MaxCalls
  /\ ws' = IF WsCloseReturnsEarly
             THEN [ws EXCEPT !.closes = Append(@, "resolved")]
             ELSE [ws EXCEPT !.closes = Append(@, "pending"),
                             !.socketCloses = @ + 1,
                             !.socket = AfterSocketClose(@)]

webVars == <<connVars, lst, channels, tasks, tags, slugs, deliveries, rk, tp, lk>>

InitWeb ==
  /\ InitConn
  /\ impl = "src"

NextWeb ==
  \/ WsConnect /\ UNCHANGED webVars
  \/ WsOpen /\ UNCHANGED webVars
  \/ WsBind /\ UNCHANGED webVars
  \/ WsSocketClosed /\ UNCHANGED webVars
  \/ WsSocketError /\ UNCHANGED webVars
  \/ WsClose /\ UNCHANGED webVars
  \/ WsSend /\ UNCHANGED webVars
  \/ \E i \in 1..MaxRequests, ev \in ReplyEvents, p \in Payloads :
       WsReply(i, ev, p) /\ UNCHANGED webVars

SpecWeb == InitWeb /\ [][NextWeb]_vars

\* the requests and replies of a listener whose socket is open, for the
\* WebListener (src) and the WSListener (lib)
InitRequests ==
  /\ impl \in {"lib", "src"}
  /\ options = [retries |-> 0, reconnect |-> FALSE]
  /\ now = 0
  /\ _conn = 0
  /\ _connecting = 0
  /\ _connectingFlag = FALSE
  /\ _reconnectAttempts = 0
  /\ _lastReconnect = 0
  /\ loops = <<>>
  /\ sessions = <<>>
  /\ calls = <<>>
  /\ connEvents = [error |-> 0, reconnect |-> 0, resets |-> 0]
  /\ dials = 0
  /\ closeCalled = FALSE
  /\ lst = <<>>
  /\ channels = <<>>
  /\ tasks = <<>>
  /\ tags = 0
  /\ slugs = 0
  /\ deliveries = <<>>
  /\ rk = RkIdle
  /\ tp = TpIdle
  /\ lk = LkIdle
  /\ ws = [WsIdle EXCEPT !.socket = SocketOpen, !.sockets = 1]

NextRequests ==
  \/ WsSend /\ UNCHANGED webVars
  \/ \E i \in 1..MaxRequests, ev \in ReplyEvents, p \in Payloads :
       WsReply(i, ev, p) /\ UNCHANGED webVars

SpecRequests == InitRequests /\ [][NextRequests]_vars

\* ------------------------------------------------------- Client._topic

\* a JavaScript value as _topic looks at it: undefined or null, a number, a
\* string, or anything else
NoValue == [kind |-> "none", str |-> <<>>, num |-> 0]

OtherValue == [kind |-> "other", str |-> <<>>, num |-> 0]

NumberValue(n) == [kind |-> "number", str |-> <<>>, num |-> n]

StringValue(str) == [kind |-> "string", str |-> str, num |-> 0]

\* the numbers and the characters callers supply
TopicNumbers == {0, 12}

TopicChars == {"a", "."}

\* the values a caller can put under a field's name
SuppliedValues ==
  {NoValue, OtherValue}
    \cup {NumberValue(n) : n \in TopicNumbers}
    \cup {StringValue(str) : str \in SeqsUpTo(TopicChars, MaxValueLen)}

\* the constants of a reference: none, or a word
Constants == {NoValue, StringValue(<<"c">>)}

\* an entry of entry.routingKey
Fields == [constant : Constants, multipleWords : BOOLEAN]

\* is v truthy, as || tests it
Truthy(v) ==
  CASE v.kind = "none" -> FALSE
    [] v.kind = "number" -> v.num # 0
    [] v.kind = "string" -> v.str # <<>>
    [] OTHER -> TRUE

Digit(d) == <<"0", "1", "2", "3", "4", "5", "6", "7", "8", "9">>[d + 1]

\* String(value) for a natural number
RECURSIVE DecimalString(_)
DecimalString(n) ==
  IF n < 10 THEN <<Digit(n)>>
  ELSE DecimalString(n \div 10) \o <<Digit(n % 10)>>

\* value.includes('.')
IncludesDot(str) == \E k \in DOMAIN str : str[k] = "."

\* mutant: a supplied value replaces the constant
FieldValueSuppliedFirst(key, supplied) ==
  IF Truthy(supplied) THEN supplied ELSE key.constant

\* key.constant || routingKeyPattern[key.name]
FieldValue(key, supplied) == IF Truthy(key.constant) THEN key.constant ELSE supplied

\* mutant: a dot is accepted in every field
DotAllowedAlways(key, str) == TRUE

\* the first assert: may str stand in the place of key
DotAllowed(key, str) == key.multipleWords \/ ~IncludesDot(str)

\* the callback of entry.routingKey.map: the string for key, or a failed assert
FieldPattern(key, supplied) ==
  LET value == FieldValue(key, supplied) IN
    CASE value.kind = "number" -> [ok |-> TRUE, str |-> DecimalString(value.num)]
      [] value.kind = "string" -> [ok |-> DotAllowed(key, value.str), str |-> value.str]
      [] value.kind = "none" ->
           [ok |-> TRUE, str |-> IF key.multipleWords THEN <<"#">> ELSE <<"*">>]
      [] OTHER -> [ok |-> FALSE, str |-> <<>>]

\* _topic for a routingKeyPattern given as an object: the pattern, or a throw
Topic(ref, values) ==
  LET parts == [k \in DOMAIN ref |-> FieldPattern(ref[k], values[k])] IN
    IF \A k \in DOMAIN ref : parts[k].ok
      THEN [stage |-> "built", pattern |-> Join([k \in DOMAIN ref |-> parts[k].str])]
      ELSE [stage |-> "thrown", pattern |-> <<>>]

\* the client method is called
CallTopic ==
  /\ tp.stage = "called"
  /\ LET r == Topic(tp.reference, tp.values) IN
       tp' = [tp EXCEPT !.stage = r.stage, !.pattern = r.pattern]

\* _handle parses a routing key equal to the string _topic built, with the
\* routingKeyReference _topic returned
ParseTopic ==
  /\ tp.stage = "built"
  /\ LET r == ParsedRouting([k \in DOMAIN tp.reference |-> tp.reference[k].multipleWords],
                            tp.pattern)
     IN tp' = [tp EXCEPT !.stage = r.stage, !.routing = r.routing]

topicVars == <<connVars, lst, channels, tasks, tags, slugs, deliveries, ws, rk, lk>>

\* any reference, and any value under each field's name
InitTopic ==
  /\ impl = "src"
  /\ options = [retries |-> 0, reconnect |-> FALSE]
  /\ now = 0
  /\ _conn = 0
  /\ _connecting = 0
  /\ _connectingFlag = FALSE
  /\ _reconnectAttempts = 0
  /\ _lastReconnect = 0
  /\ loops = <<>>
  /\ sessions = <<>>
  /\ calls = <<>>
  /\ connEvents = [error |-> 0, reconnect |-> 0, resets |-> 0]
  /\ dials = 0
  /\ closeCalled = FALSE
  /\ lst = <<>>
  /\ channels = <<>>
  /\ tasks = <<>>
  /\ tags = 0
  /\ slugs = 0
  /\ deliveries = <<>>
  /\ ws = WsIdle
  /\ rk = RkIdle
  /\ lk = LkIdle
  /\ \E n \in 1..MaxFields :
       \E ref \in [1..n -> Fields], values \in [1..n -> SuppliedValues] :
         tp = [reference |-> ref, values |-> values, stage |-> "called",
               pattern |-> <<>>, routing |-> <<>>]

NextTopic ==
  \/ CallTopic /\ UNCHANGED topicVars
  \/ ParseTopic /\ UNCHANGED topicVars

SpecTopic == InitTopic /\ [][NextTopic]_vars

\* ------------------------------------------------------------ claims

\* a fresh lib manager in its first connect(): no dial has succeeded, the reset
\* window never elapsed, and no second dial loop was started
C1_Fresh ==
  /\ impl = "lib"
  /\ Len(loops) = 1
  /\ Len(sessions) = 0
  /\ connEvents.resets = 0

\* C1: with retries = R and every dial failing, a fresh manager dials exactly
\* R + 1 times during connect(), then rejects the promise and emits one `error`;
\* it never dials more, and emits no `error` before the (R+1)-th failure.
C1_RetryBudget ==
  C1_Fresh =>
    LET R == options.retries IN
      /\ dials <= R + 1
      /\ connEvents.error = (IF loops[1].pc = "rejected" THEN 1 ELSE 0)
      /\ loops[1].pc = "rejected" =>
           /\ dials = R + 1
           /\ \A c \in DOMAIN calls : calls[c].result = Rejected
      /\ (dials = R + 1 /\ loops[1].pc # "dial") => loops[1].pc = "rejected"

C1_Witness ==
  /\ C1_Fresh
  /\ options.retries = 2
  /\ loops[1].pc = "rejected"
  /\ dials = 3
  /\ connEvents.error = 1

\* the manager connected at its first dial, lost that session, and every later
\* dial failed; auto-reconnect is on, the reset window never elapsed, the user
\* called neither close() nor a connect() that started another loop
C2_Scenario ==
  /\ impl = "lib"
  /\ options.reconnect
  /\ connEvents.resets = 0
  /\ ~closeCalled
  /\ Len(sessions) = 1
  /\ sessions[1] = "errored"
  /\ loops[1].pc = "resolved"
  /\ loops[1].n = 1
  /\ \A c \in DOMAIN calls : calls[c].started => calls[c].loop = 1

\* C2: after one successful connect and the loss of that session, with every
\* later dial failing, the manager dials exactly R more times and then emits
\* `error`: the session loss is the first counted failure (R = 0: `error` with
\* no further dial; R = 2: three dials in all).
C2_ReconnectBudget ==
  C2_Scenario =>
    LET R == options.retries IN
      /\ dials <= R + 1
      /\ connEvents.error <= 1
      /\ connEvents.error = 1 => dials = R + 1
      /\ R = 0 => connEvents.error = 1 /\ connEvents.reconnect = 0 /\ Len(loops) = 1
      /\ R > 0 =>
           /\ Len(loops) = 2
           /\ connEvents.reconnect = 1
           /\ connEvents.error = 1 <=> loops[2].pc = "rejected"
           /\ (dials = R + 1 /\ loops[2].pc # "dial") => loops[2].pc = "rejected"

C2_Witness ==
  /\ C2_Scenario
  /\ options.retries = 2
  /\ dials = 3
  /\ connEvents.error = 1

\* C3: while only connect() is called, at most one dial loop runs at any time;
\* a connect() made while an attempt is in flight or a session is open starts
\* no dial; a caller during the attempt gets that attempt's outcome, and a
\* caller while open gets the current session.
C3_SingleDialLoop ==
  ~closeCalled =>
    /\ Cardinality(LoopsInFlight) <= 1
    /\ \A c \in DOMAIN calls :
         /\ calls[c].state \in {"inflight", "open"} => ~calls[c].started
         /\ calls[c].state = "open" =>
              calls[c].conn # 0 /\ calls[c].result = calls[c].conn
         /\ calls[c].state = "inflight" =>
              calls[c].loop # 0 /\ calls[c].result = LoopOutcome(loops, calls[c].loop)

C3_Witness ==
  /\ ~closeCalled
  /\ \E c \in DOMAIN calls :
       calls[c].state = "inflight" /\ ~calls[c].started /\ calls[c].result > 0

\* C4: when the session the manager holds reports an error, the manager drops
\* its session reference and emits exactly one of `reconnect` (with a new dial
\* loop; auto-reconnect on, budget left) and `error` (no new dial).
C4_SessionErrorHandled ==
  [][\A s \in DOMAIN sessions :
       (sessions[s] = "open" /\ sessions'[s] = "errored" /\ _conn = s) =>
         LET dErr == connEvents'.error - connEvents.error
             dRec == connEvents'.reconnect - connEvents.reconnect
         IN /\ _conn' # s
            /\ dErr + dRec = 1
            /\ dRec = 1 <=> (options.reconnect /\ _reconnectAttempts' <= options.retries)
            /\ dRec = 1 => Len(loops') = Len(loops) + 1
                            /\ loops'[Len(loops')].pc \in InFlightPcs
            /\ dErr = 1 => loops' = loops /\ dials' = dials
    ]_vars

\* the values a sequence holds
Range(q) == {q[k] : k \in DOMAIN q}

\* the open channels that were created for listener i
OpenChannels(i) == {c \in DOMAIN channels : channels[c].listener = i /\ channels[c].open}

\* the consumers the broker holds for listener i
ActiveConsumers(i) == UNION {channels[c].consumers : c \in OpenChannels(i)}

\* C9: in every reachable state a Listener has at most one open channel and
\* at most one active consumer, and the stored consumer tag is that consumer.
C9_SingleChannelConsumer ==
  \A i \in DOMAIN lst :
    /\ Cardinality(OpenChannels(i)) <= 1
    /\ Cardinality(ActiveConsumers(i)) <= 1
    /\ ActiveConsumers(i) # {} => ActiveConsumers(i) = {lst[i]._consumerTag}

\* C10: when `reconnect` reaches a Listener with reconnect enabled that holds
\* a channel, it drops and invalidates that channel and starts a call on the
\* new dial loop; when that call completes it has opened a new channel on a
\* newer, live session, set the prefetch limit, declared the same queue,
\* issued every binding recorded at the event, and it has started a consumer
\* if and only if the Listener was consuming when the session was lost.
C10_ReEstablished ==
  [][/\ \A i \in DOMAIN lst :
          (connEvents'.reconnect > connEvents.reconnect /\ Reconnects(i)) =>
            /\ lst'[i]._channel = 0
            /\ lst'[i]._consumerTag = 0
            /\ channels'[lst[i]._channel].invalidated = "true"
            /\ \E t \in DOMAIN tasks' \ DOMAIN tasks :
                 /\ tasks'[t].listener = i
                 /\ tasks'[t].origin = "reconnect"
                 /\ tasks'[t].pc = "conn"
                 /\ tasks'[t].loop = _connecting'
                 /\ tasks'[t].wasConsuming <=> lst[i]._consumerTag # 0
     /\ \A t \in DOMAIN tasks :
          (tasks[t].origin = "reconnect" /\ tasks[t].pc # "done" /\ tasks'[t].pc = "done") =>
            LET c == tasks'[t].channel
                i == tasks[t].listener
            IN /\ c # tasks[t].old
               /\ channels'[c].open
               /\ channels'[c].session > channels[tasks[t].old].session
               /\ sessions'[channels'[c].session] = "open"
               /\ channels'[c].prefetch
               /\ channels'[c].queue = lst'[i]._queueName
               /\ channels'[c].invalidated = "false"
               /\ Range(tasks[t].bindingsAtEvent) \subseteq Range(channels'[c].bound)
               /\ tasks[t].wasConsuming <=> tasks'[t].tag # 0
               /\ tasks[t].wasConsuming =>
                    /\ tasks'[t].tag \in channels'[c].consumers
                    /\ lst'[i]._consumerTag = tasks'[t].tag
    ]_vars

\* a Listener that consumed, got a binding, lost its session and is consuming
\* again on a new channel that carries the binding
C10_Witness ==
  \E t \in DOMAIN tasks :
    /\ tasks[t].origin = "reconnect"
    /\ tasks[t].pc = "done"
    /\ tasks[t].wasConsuming
    /\ tasks[t].bindingsAtEvent # <<>>
    /\ channels[tasks[t].channel].open
    /\ tasks[t].tag \in channels[tasks[t].channel].consumers
    /\ Range(lst[tasks[t].listener]._bindings) \subseteq Range(channels[tasks[t].channel].bound)

\* every handler of delivery record d fulfilled
AllSucceeded(d) == \A k \in DOMAIN d.handlers : d.handlers[k] = "ok"

\* some handler of delivery record d rejected
AnyFailed(d) == \E k \in DOMAIN d.handlers : d.handlers[k] = "failed"

\* the deliveries whose body decoded and whose chain has run
Decided == {x \in DOMAIN deliveries :
              deliveries[x].decodable /\ deliveries[x].stage = "settled"}

\* C5 (as stated): for a decided delivery ack is sent if and only if every
\* handler succeeded, and if any handler failed nack is sent with
\* requeue = ~redelivered.
C5_AckIffAllSucceed ==
  \A x \in Decided :
    LET d == deliveries[x] IN
      /\ d.ack = "sent" <=> AllSucceeded(d)
      /\ AnyFailed(d) => d.nack = "sent" /\ (d.requeue <=> ~d.redelivered)

\* C5 (amended): for a decided delivery an ack is attempted if and only if
\* every handler succeeded; if a handler failed no ack is attempted and a nack
\* with requeue = ~redelivered is attempted, unless the lib Listener finds the
\* delivery's channel invalidated by a reconnect and sends nothing; a nack is
\* attempted only after a failed handler or a failed ack; an attempt fails
\* only on a closed or missing channel.
C5_AckNackAttempted ==
  \A x \in Decided :
    LET d == deliveries[x] IN
      /\ d.ack # "none" <=> AllSucceeded(d)
      /\ AnyFailed(d) =>
           /\ d.ack = "none"
           /\ ~d.skipped => d.nack # "none"
      /\ d.nack # "none" => (d.requeue <=> ~d.redelivered)
      /\ d.nack # "none" => AnyFailed(d) \/ d.ack = "failed"
      /\ d.skipped => /\ impl = "lib"
                      /\ channels[d.channel].invalidated = "true"
                      /\ d.nack = "none"
      /\ (d.ack = "failed" \/ d.nack = "failed") => ~CanSend(d.target)
      /\ (d.ack = "sent" \/ d.nack = "sent") => d.target # 0

\* a redelivered message whose handler failed was nacked without requeue
C5_Witness ==
  \E x \in Decided :
    /\ AnyFailed(deliveries[x])
    /\ deliveries[x].redelivered
    /\ deliveries[x].nack = "sent"
    /\ ~deliveries[x].requeue

\* C6: neither ack nor nack is attempted for a delivery while one of its
\* handlers is still running.
C6_DecisionAfterAllSettled ==
  \A x \in DOMAIN deliveries :
    (deliveries[x].ack # "none" \/ deliveries[x].nack # "none") =>
      deliveries[x].pendingAtSend = 0

\* C7: a delivery whose body does not decode is nacked without requeue and
\* not acked once _handle has run.
C7_UndecodableNacked ==
  \A x \in DOMAIN deliveries :
    ~deliveries[x].decodable =>
      /\ deliveries[x].nack = "sent"
      /\ ~deliveries[x].requeue
      /\ deliveries[x].ack = "none"

\* C8: a failed ack or nack is emitted as `error`, and a failed ack is not
\* followed by a nack of the same delivery.
C8_SendFailureIsError ==
  \A x \in DOMAIN deliveries :
    /\ deliveries[x].ack = "failed" =>
         deliveries[x].errors > 0 /\ deliveries[x].nack = "none"
    /\ deliveries[x].nack = "failed" => deliveries[x].errors > 0

\* has connect() published channel c as this._channel (assertQueue answered)
Published(c) ==
  \E t \in DOMAIN tasks :
    /\ tasks[t].channel = c
    /\ tasks[t].pc \in {"bind", "consume", "delete", "done"}

\* the bindings issued on the held channels match the recorded ones
BindingsIssuedOnce ==
  /\ \A i \in DOMAIN lst :
       (lst[i]._channel # 0 /\ channels[lst[i]._channel].open) =>
         channels[lst[i]._channel].bound = lst[i]._bindings
  /\ \A c \in DOMAIN channels :
       (channels[c].open /\ ~Published(c)) => channels[c].bound = <<>>

C12_QueueNameFixed ==
  [][/\ \A i \in DOMAIN lst :
          lst[i]._queueName # 0 => lst'[i]._queueName = lst[i]._queueName
     /\ \A c \in DOMAIN channels' :
          channels'[c].queue \in {0, lst'[channels'[c].listener]._queueName}
    ]_vars

\* C13: close() of a Listener on an external connection leaves the manager's
\* session alone, whatever state the Listener is in; close() of a Listener
\* that owns its connection closes it.
C13_CloseKeepsSharedSession ==
  [][\A i \in DOMAIN lst :
       close(i) =>
         IF lst[i].owns
           THEN /\ _conn' = 0
                /\ _conn # 0 => sessions'[_conn] = "closed"
           ELSE /\ _conn' = _conn
                /\ sessions' = sessions
    ]_vars

\* C14: with two Listeners on one connection, close() of one leaves the
\* other Listener and its channels, consumers and bindings as they were, and
\* the two Listeners never consume from the same queue.
C14_ListenersIsolated ==
  [][/\ \A i, j \in DOMAIN lst :
          (i # j /\ close(i)) =>
            /\ lst'[j] = lst[j]
            /\ \A c \in DOMAIN channels :
                 channels[c].listener = j => channels'[c] = channels[c]
     /\ \A c, d \in DOMAIN channels' :
          (/\ channels'[c].listener # channels'[d].listener
           /\ channels'[c].consumers # {}
           /\ channels'[d].consumers # {}) =>
            channels'[c].queue # channels'[d].queue
    ]_vars

\* a resume() of listener i has been called and has not finished
ResumePending(i) ==
  \E t \in DOMAIN tasks :
    /\ tasks[t].listener = i
    /\ tasks[t].kind = "resume"
    /\ tasks[t].pc \notin {"done", "failed"}

\* listener i is between pause() and the next resume(): it holds a channel,
\* pause() cleared the consumer tag and no resume() is under way
Paused(i) ==
  /\ lst[i]._channel # 0
  /\ lst[i]._consumerTag = 0
  /\ ~ResumePending(i)

\* the broker can hand a message of listener i's queue to _handle on the
\* channel the listener holds
Dispatches(i) ==
  /\ channels[lst[i]._channel].open
  /\ channels[lst[i]._channel].consumers # {}
  /\ lst[i]._bindings # <<>>

\* C15: between the completion of pause() and the next resume() no message
\* is dispatched to a handler of the Listener.
C15_PausedNotDispatching ==
  \A i \in DOMAIN lst : Paused(i) => ~Dispatches(i)

\* what a call of pause() on listener i does in the current state
PauseOutcome(i) ==
  IF impl = "lib" THEN LibPauseOutcome(i) ELSE SrcPauseOutcome(i)

\* listener i has a channel, and the consumer its tag names is active on it
Consuming(i) ==
  /\ lst[i]._channel # 0
  /\ lst[i]._consumerTag \in channels[lst[i]._channel].consumers

\* C16: pause() has an error outcome, and cancels nothing, whenever the
\* Listener is not connected or not consuming; it cancels the consumer of the
\* stored tag only when that consumer is active.
C16_PauseFailsUnlessConsuming ==
  \A i \in DOMAIN lst :
    IF Consuming(i) THEN PauseOutcome(i) = "cancelled"
                    ELSE PauseOutcome(i) = "thrown"

\* C17: an unrecoverable condition produces exactly one `error` event on
\* each affected emitter: no step makes an emitter emit `error` twice, and
\* when the manager emits `error` a Listener that owns it emits `error` once.
C17_ErrorExactlyOnce ==
  [][/\ connEvents'.error \in {connEvents.error, connEvents.error + 1}
     /\ \A i \in DOMAIN lst :
          /\ lst'[i].events.error \in {lst[i].events.error, lst[i].events.error + 1}
          /\ (lst[i].owns /\ connEvents'.error > connEvents.error) =>
               lst'[i].events.error = lst[i].events.error + 1
    ]_vars

\* the retry-reset window has elapsed since the last connection attempt
WindowElapsed == now - _lastReconnect > RetryResetTime

\* a failure that _rethrowOrRetry gets to count: a failed dial, or the loss
\* of the session of a manager that reconnects
CountedFailure ==
  \/ \E l \in DOMAIN loops : LibDialFail(l)
  \/ options.reconnect /\ \E s \in DOMAIN sessions : LibOnError(s)

\* C18: a failure that comes after the retry-reset window has elapsed is not
\* fatal, whatever was counted before: the counter restarts at 0, no `error`
\* is emitted and the manager retries.
C18_ResetForgives ==
  [][(WindowElapsed /\ CountedFailure) =>
       /\ _reconnectAttempts' = 0
       /\ connEvents'.error = connEvents.error
       /\ LoopsInFlight' # {}
       /\ \A l \in DOMAIN loops : loops'[l].pc = "rejected" => loops[l].pc = "rejected"
    ]_vars

\* the first loop dialled twice, so the counter had reached the limit of 1;
\* the session it opened was lost after the window and the manager reconnects
C18_Witness ==
  /\ options = [retries |-> 1, reconnect |-> TRUE]
  /\ Len(loops) = 2
  /\ loops[1].n = 2
  /\ loops[1].pc = "resolved"
  /\ connEvents = [error |-> 0, reconnect |-> 1, resets |-> 1]
  /\ _reconnectAttempts = 0
  /\ _connecting = 2

\* C19: close() on a WebListener whose socket is already in its CLOSED state
\* (or that never had a socket) changes no state, performs no socket
\* operation and returns a promise that resolves.
C19_CloseIdempotent ==
  [][(WsClose /\ ws.socket \in {NoSocket, SocketClosed}) =>
       /\ ws'.socket = ws.socket
       /\ ws'.socketCloses = ws.socketCloses
       /\ ws'.closes = Append(ws.closes, "resolved")
    ]_vars

\* the multi-word fields of reference ref
MultiWordFields(ref) == {k \in DOMAIN ref : ref[k]}

\* C20: with exactly one multi-word field m among n fields, and a routing key
\* of L >= n - 1 segments, the parse succeeds; field k before m gets segment
\* k, field k after m gets segment L - (n - k), and m gets the segments in
\* between joined with "."; when m gets at least one segment, the values
\* joined in field order are the routing key again.
C20_MultiWordParse ==
  rk.stage \in {"parsed", "failed"} =>
    LET ref == rk.reference
        segs == Split(rk.routingKey)
        n == Len(ref)
        L == Len(segs)
    IN (Cardinality(MultiWordFields(ref)) = 1 /\ L >= n - 1) =>
         LET m == CHOOSE k \in MultiWordFields(ref) : TRUE IN
           /\ rk.stage = "parsed"
           /\ \A k \in 1..(m - 1) : rk.routing[k] = segs[k]
           /\ \A k \in (m + 1)..n : rk.routing[k] = segs[L - (n - k)]
           /\ rk.routing[m] = Join(SubSeq(segs, m, L - (n - m)))
           /\ L >= n => Join(rk.routing) = rk.routingKey

\* the example: two single-word fields, then the multi-word field, which gets
\* a value with a dot in it
C20_Witness ==
  /\ rk.stage = "parsed"
  /\ rk.reference = <<FALSE, FALSE, TRUE>>
  /\ rk.routingKey = <<"a", ".", "b", ".", "a", ".", "b">>
  /\ rk.routing = << <<"a">>, <<"b">>, <<"a", ".", "b">> >>

\* field k of the _topic call is a constant
IsConstant(k) == tp.reference[k].constant.kind = "string"

\* the call gives every non-constant field a string without a dot, and the
\* reference has no multi-word field
DotFreeCall ==
  \A k \in DOMAIN tp.reference :
    /\ ~tp.reference[k].multipleWords
    /\ ~IsConstant(k) =>
         tp.values[k].kind = "string" /\ ~IncludesDot(tp.values[k].str)

\* C21: with no multi-word field and a dot-free string for every non-constant
\* field, build succeeds, and parsing what it built with the same reference
\* succeeds and gives each non-constant field the value supplied and each
\* constant field its constant.
C21_RoundTrip ==
  DotFreeCall =>
    /\ tp.stage \notin {"thrown", "failed"}
    /\ tp.stage = "parsed" =>
         \A k \in DOMAIN tp.reference :
           tp.routing[k] = IF IsConstant(k) THEN tp.reference[k].constant.str
                                            ELSE tp.values[k].str

\* a constant and two supplied words of different lengths come back
C21_Witness ==
  /\ tp.stage = "parsed"
  /\ DotFreeCall
  /\ Len(tp.reference) = 3
  /\ IsConstant(1) /\ ~IsConstant(2) /\ ~IsConstant(3)
  /\ tp.values[2].str = <<"a">>
  /\ tp.values[3].str = <<"a", "a">>
  /\ tp.routing = << <<"c">>, <<"a">>, <<"a", "a">> >>

\* String(value) for the numbers callers supply, written out
Decimal(n) == IF n = 0 THEN <<"0">> ELSE <<"1", "2">>

\* the string build is to produce for field k
ExpectedPart(k) ==
  LET key == tp.reference[k]
      v == tp.values[k]
  IN IF IsConstant(k) THEN key.constant.str
     ELSE CASE v.kind = "string" -> v.str
            [] v.kind = "number" -> Decimal(v.num)
            [] OTHER -> IF key.multipleWords THEN <<"#">> ELSE <<"*">>

\* the value supplied for non-constant field k is a string with a dot in a
\* single-word field
DottedSingleWord(k) ==
  /\ ~IsConstant(k)
  /\ ~tp.reference[k].multipleWords
  /\ tp.values[k].kind = "string"
  /\ IncludesDot(tp.values[k].str)

\* the value supplied for non-constant field k is neither absent, nor a
\* number, nor a string
UnsupportedValue(k) == ~IsConstant(k) /\ tp.values[k].kind = "other"

\* C22: build gives, field by field, the constant, else the supplied string
\* or the decimal string of the supplied number, else # or *, joined with
\* "."; a supplied value of another kind is rejected, and nothing is
\* rejected but such a value or a dot in a single-word field.
C22_BuildByField ==
  tp.stage # "called" =>
    /\ (\E k \in DOMAIN tp.reference : UnsupportedValue(k)) => tp.stage = "thrown"
    /\ tp.stage = "thrown" =>
         \E k \in DOMAIN tp.reference : UnsupportedValue(k) \/ DottedSingleWord(k)
    /\ tp.stage # "thrown" =>
         tp.pattern = Join([k \in DOMAIN tp.reference |-> ExpectedPart(k)])

\* my-constant.0.# : a value supplied for the constant is ignored, 0 is
\* written as "0", the multi-word field without a value becomes #
C22_Witness ==
  /\ tp.stage = "built"
  /\ Len(tp.reference) = 3
  /\ IsConstant(1) /\ tp.values[1] = StringValue(<<"a">>)
  /\ ~IsConstant(2) /\ tp.values[2] = NumberValue(0)
  /\ ~IsConstant(3) /\ tp.reference[3].multipleWords /\ tp.values[3] = NoValue
  /\ tp.pattern = <<"c", ".", "0", ".", "#">>

\* C23 as stated: build fails whenever a string with a dot is supplied for a
\* field that is not multi-word.
C23_DotRejected ==
  tp.stage # "called" =>
    \A k \in DOMAIN tp.reference :
      (/\ ~tp.reference[k].multipleWords
       /\ tp.values[k].kind = "string"
       /\ IncludesDot(tp.values[k].str)) => tp.stage = "thrown"

\* C23 amended: build fails whenever a string with a dot is supplied for a
\* non-constant field that is not multi-word, and a dot in the value of a
\* multi-word field (or in a value supplied for a constant field, which is
\* ignored) does not make it fail.
C23_DotRejectedUnlessConstant ==
  tp.stage # "called" =>
    /\ (\E k \in DOMAIN tp.reference : DottedSingleWord(k)) => tp.stage = "thrown"
    /\ (\A k \in DOMAIN tp.reference : ~DottedSingleWord(k) /\ ~UnsupportedValue(k)) =>
         tp.stage # "thrown"

\* a dotted value is taken for the multi-word field and refused for the
\* single-word field after it
C23_Witness ==
  /\ tp.stage = "thrown"
  /\ Len(tp.reference) = 2
  /\ ~IsConstant(1) /\ tp.reference[1].multipleWords
  /\ tp.values[1] = StringValue(<<"a", ".">>)
  /\ DottedSingleWord(2)

\* the deliveries whose routing key parse failed
ParseFailed == {x \in DOMAIN deliveries : deliveries[x].parse = "failed"}

\* C24: when the parse of the routing key fails, _handle still calls every
\* registered handler, with a message that has no routing, and once the
\* handlers' outcome is decided it attempts ack or nack as for any other
\* delivery.
C24_ParseFailureTolerated ==
  \A x \in ParseFailed :
    LET d == deliveries[x] IN
      /\ d.stage # "crashed"
      /\ Len(d.handlers) = d.registered
      /\ ~d.routing
      /\ d.stage = "settled" =>
           /\ d.ack # "none" <=> AllSucceeded(d)
           /\ AnyFailed(d) => d.ack = "none" /\ (~d.skipped => d.nack # "none")

\* a message whose parse failed went to its handler and was acked
C24_Witness ==
  \E x \in ParseFailed :
    /\ deliveries[x].registered = 1
    /\ deliveries[x].handlers = <<"ok">>
    /\ deliveries[x].ack = "sent"

\* C25: every request has an id of its own; a message with id i settles the
\* pending request with id i, resolving it with the payload unless the event
\* is `error`, which rejects it with the payload, and changes no other
\* request; a settled request keeps its outcome.
C25_ReplySettlesItsRequest ==
  [][/\ \A j, k \in DOMAIN ws'.requests :
          ws'.requests[j].id = ws'.requests[k].id => j = k
     /\ \A k \in DOMAIN ws.requests :
          ws.requests[k].state # "pending" =>
            /\ ws'.requests[k].state = ws.requests[k].state
            /\ ws'.requests[k].value = ws.requests[k].value
     /\ \A i \in 1..MaxRequests, ev \in ReplyEvents, p \in Payloads :
          WsReply(i, ev, p) =>
            \A k \in DOMAIN ws.requests :
              IF ws.requests[k].id = i /\ ws.requests[k].state = "pending"
                THEN /\ ws'.requests[k].state =
                          (IF ev = "error" THEN "rejected" ELSE "resolved")
                     /\ ws'.requests[k].value = p
                ELSE /\ ws'.requests[k].state = ws.requests[k].state
                     /\ ws'.requests[k].value = ws.requests[k].value
    ]_vars

\* of three requests the second was rejected with q, the third resolved
\* with p, and the first is still pending
C25_Witness ==
  /\ Len(ws.requests) = 3
  /\ ws.requests[1].state = "pending"
  /\ ws.requests[2].state = "rejected" /\ ws.requests[2].value = "q"
  /\ ws.requests[3].state = "resolved" /\ ws.requests[3].value = "p"

\* the manager emits `reconnect` in this step
ManagerReconnects == connEvents'.reconnect > connEvents.reconnect

\* the manager emits `error` in this step
ManagerErrors == connEvents'.error > connEvents.error

\* a call of listener i fails in this step
CallFails(i) ==
  \E t \in DOMAIN tasks :
    /\ tasks[t].listener = i
    /\ tasks[t].pc # "failed"
    /\ tasks'[t].pc = "failed"

\* C26: a Listener that owns its manager emits `reconnect` when the manager
\* does and `error` when the manager does; a Listener on an external manager
\* does not emit `error` because the manager did.
C26_OwnerForwardsEvents ==
  [][\A i \in DOMAIN lst :
       IF lst[i].owns
         THEN /\ ManagerReconnects => lst'[i].events.reconnect = lst[i].events.reconnect + 1
              /\ ManagerErrors => lst'[i].events.error > lst[i].events.error
         ELSE (ManagerErrors /\ ~CallFails(i)) =>
                lst'[i].events.error = lst[i].events.error
    ]_vars

\* the steps of connect(): obtaining the session, opening the channel, setting
\* prefetch, declaring the queue, applying the bindings
ConnectSteps == {"conn", "channel", "prefetch", "assert", "bind"}

\* call t fails in this step while it is in a step of connect()
ConnectFails(t) ==
  /\ tasks[t].pc \in ConnectSteps
  /\ tasks'[t].pc = "failed"

\* C27: when a step of connect() fails, the promise rejects and the Listener
\* holds no reference to the channel that call was configuring, so that a
\* later connect() starts over instead of returning the half-configured channel
C27_FailureLeavesUnbound ==
  [][\A t \in DOMAIN tasks :
       ConnectFails(t) =>
         \/ lst'[tasks[t].listener]._channel = 0
         \/ lst'[tasks[t].listener]._channel # tasks[t].channel
    ]_vars

\* is sequence a an initial part of sequence b
IsPrefix(a, b) == Len(a) <= Len(b) /\ \A k \in 1..Len(a) : a[k] = b[k]

\* a call is still waiting for the bindings it issued on channel c
BindingsPending(c) ==
  \E u \in DOMAIN tasks :
    tasks[u].pc = "bind" /\ tasks[u].channel = c /\ tasks[u].issued > 0

\* a call has issued consume on channel c and waits for the answer
ConsumeIssued(c) ==
  \E t \in DOMAIN tasks : tasks[t].pc = "consume" /\ tasks[t].channel = c

\* C28: the broker operations of a Listener come in a fixed order: the queue
\* is declared only once prefetch is answered, the bindings issued on a channel
\* follow the order they were recorded in, and consume is issued on a channel
\* only when no binding issued on it is still unanswered
C28_FixedOrder ==
  /\ \A t \in DOMAIN tasks :
       (tasks[t].pc = "assert" /\ channels[tasks[t].channel].open)
          => channels[tasks[t].channel].prefetch
  /\ \A c \in DOMAIN channels :
       /\ IsPrefix(channels[c].bound, lst[channels[c].listener]._bindings)
       /\ (channels[c].open /\ ConsumeIssued(c)) => ~BindingsPending(c)

\* call t gets its consumer in this step
StartsConsumer(t) ==
  /\ tasks[t].pc = "consume"
  /\ tasks'[t].pc = "done"

\* C29: once pause() has returned the Listener gets no consumer until the
\* user next calls resume(), also when pause() was called while the Listener
\* re-establishes itself after `reconnect`: the resume() started by the
\* reconnect handler starts no consumer after such a pause()
C29_PausedThroughReconnect ==
  [][\A t \in DOMAIN tasks : StartsConsumer(t) => ~tasks[t].pausedSince]_vars

\* an attempt is waiting out its backoff sleep
BackoffSleeping == \E l \in DOMAIN loops : loops[l].pc = "sleep"

\* C30: a failure recorded after the retry-reset window has elapsed leaves the
\* attempt counter at 1 (reset to 0, then counted), and the attempt that
\* follows first sleeps the backoff delay
C30_ResetThenCountsOne ==
  [][(WindowElapsed /\ CountedFailure) =>
       /\ _reconnectAttempts' = 1
       /\ BackoffSleeping'
    ]_vars

\* the first binding from position k on that is for exchange ex and carries a
\* reference, 0 when there is none
RECURSIVE FirstMatch(_, _, _)
FirstMatch(bs, ex, k) ==
  IF k > Len(bs) THEN 0
  ELSE IF Matches(bs[k], ex) THEN k ELSE FirstMatch(bs, ex, k + 1)

\* C31: the reference _handle parses with is that of the first binding, in
\* the order added, whose exchange is the delivery's and which carries a
\* reference; with no such binding nothing is parsed and routing is absent
C31_FirstMatchingReference ==
  lk.stage = "done" =>
    LET k == FirstMatch(lk.bindings, lk.exchange, 1) IN
      IF k = 0
        THEN RoutingAfterLookup(lk.found) = "absent"
        ELSE lk.found = ReferenceOf(lk.bindings[k])

\* C32: a reference with more than one multi-word field, wherever they are
\* placed, is rejected as malformed: the parse fails, no routing is attached
\* and no segment is attributed to any field
C32_SeveralMultiWordRejected ==
  (rk.stage \in {"parsed", "failed"} /\ Cardinality(MultiWordFields(rk.reference)) > 1) =>
    /\ rk.stage = "failed"
    /\ rk.routing = <<>>

\* a three-field reference whose first and last fields are multi-word has
\* been through the parse, with a key of three words
C32_Witness ==
  /\ rk.stage = "failed"
  /\ rk.reference = <<TRUE, FALSE, TRUE>>
  /\ rk.routingKey = <<"a", ".", "b", ".", "a">>

\* handler k of delivery x throws or rejects in this step
HandlerRejects(x, k) ==
  /\ deliveries[x].handlers[k] = "pending"
  /\ deliveries'[x].handlers[k] = "failed"

\* what C33 asks of a step
HandlersIsolated ==
  /\ \A x \in DOMAIN deliveries' :
       (deliveries'[x].decodable /\ deliveries'[x].stage # "crashed") =>
          Len(deliveries'[x].handlers) = deliveries'[x].registered
  /\ \A x \in DOMAIN deliveries : \A k \in DOMAIN deliveries[x].handlers :
       /\ deliveries[x].handlers[k] # "pending" =>
             deliveries'[x].handlers[k] = deliveries[x].handlers[k]
       /\ HandlerRejects(x, k) =>
             /\ \A h \in DOMAIN deliveries[x].handlers \ {k} :
                  deliveries'[x].handlers[h] = deliveries[x].handlers[h]
             /\ \A y \in DOMAIN deliveries \ {x} : deliveries'[y] = deliveries[y]

\* C33: for a decoded delivery each handler registered is called, once: there
\* is one call per handler and a call that has settled never settles again; a
\* handler that throws or rejects leaves the calls of the other handlers of
\* that delivery as they are, and leaves every other delivery as it is
C33_HandlersIsolated == [][HandlersIsolated]_vars

\* two deliveries with two handlers each: a handler of the first rejected and
\* the first was nacked, the other handler of the first still fulfilled, and
\* the second delivery was acked
C33_Witness ==
  /\ Len(deliveries) = 2
  /\ deliveries[1].handlers = <<"failed", "ok">>
  /\ deliveries[1].nack = "sent"
  /\ deliveries[2].handlers = <<"ok", "ok">>
  /\ deliveries[2].ack = "sent"

\* listener i starts a call, or gets a channel, in this step
ReestablishStarts(i) ==
  \/ \E t \in DOMAIN tasks' : t \notin DOMAIN tasks /\ tasks'[t].listener = i
  \/ \E c \in DOMAIN channels' : c \notin DOMAIN channels /\ channels'[c].listener = i

\* the call the reconnect handler of listener i started ends well in this step
Reestablished(i) ==
  \E t \in DOMAIN tasks :
    /\ tasks[t].listener = i
    /\ tasks[t].origin = "reconnect"
    /\ tasks[t].pc # "done"
    /\ tasks'[t].pc = "done"

\* what C34 asks of a step
ReconnectOptionHonoured ==
  \A i \in DOMAIN lst :
    /\ lst'[i].given = "undefined" => (lst'[i].reconnect <=> lst'[i].named)
    /\ ManagerReconnects =>
         IF lst[i].reconnect
           THEN lst'[i].events.error = lst[i].events.error
           ELSE /\ lst'[i].events.error = lst[i].events.error + 1
                /\ ~ReestablishStarts(i)
    /\ Reestablished(i) => lst'[i].events.error = lst[i].events.error

\* C34: reconnect defaults to true exactly when a queue name is given; on the
\* manager's `reconnect` a Listener with reconnect off emits `error` and starts
\* no call and opens no channel; a Listener with reconnect on emits no `error`
\* for the event, nor when the call it then starts ends well
C34_ReconnectOption == [][ReconnectOptionHonoured]_vars

\* a Listener without queue name and without a reconnect option, so with
\* reconnect off, has seen its manager emit `reconnect` and has emitted `error`
C34_Witness ==
  /\ lst[1].given = "undefined"
  /\ ~lst[1].named
  /\ ~lst[1].reconnect
  /\ connEvents.reconnect = 1
  /\ lst[1].events.error = 1
  /\ tasks # <<>>

\* the lib manager has been closed and is idle: it holds no session and no
\* promise of one, so no connect() made since close() is under way
ClosedAndIdle ==
  /\ impl = "lib"
  /\ closeCalled
  /\ _connecting = 0
  /\ _conn = 0

\* C35: once close() has been called the manager holds no session and makes no
\* dial until connect() is called again, also when close() came during an
\* attempt or a backoff sleep
C35_ClosedStaysClosed ==
  [][(ClosedAndIdle /\ Len(calls') = Len(calls)) =>
       /\ _conn' = 0
       /\ dials' = dials
    ]_vars

\* C36: in the newer PulseConnection no connect() call waits for an outcome
\* that nothing will announce: while a call is pending a dial sequence is in
\* flight, also for a call made after an earlier one was rejected
C36_NoCallWaitsInVain ==
  impl = "src" =>
    \A c \in DOMAIN calls : calls[c].result = Pending => LoopsInFlight # {}

\* the session the manager of auto-reconnect holds is lost in this step
SessionLost == options.reconnect /\ \E s \in DOMAIN sessions : LibOnError(s)

\* what C37 asks of a step
BudgetShared ==
  /\ _reconnectAttempts' < _reconnectAttempts => WindowElapsed
  /\ (SessionLost /\ ~WindowElapsed) =>
       /\ _reconnectAttempts' = _reconnectAttempts + 1
       /\ IF _reconnectAttempts' > options.retries
            THEN /\ connEvents'.error = connEvents.error + 1
                 /\ connEvents'.reconnect = connEvents.reconnect
                 /\ loops' = loops
            ELSE /\ connEvents'.error = connEvents.error
                 /\ connEvents'.reconnect = connEvents.reconnect + 1

\* C37: the attempt counter goes down only when the reset window has elapsed,
\* never on a successful connection; each session loss within the window adds
\* one, and the loss that takes the counter past retries is fatal
C37_BudgetShared == [][BudgetShared]_vars

\* retries is 1: the first session was lost and the reconnect succeeded at its
\* first dial; the second session was lost within the window, which was fatal
C37_Witness ==
  /\ impl = "lib"
  /\ options = [retries |-> 1, reconnect |-> TRUE]
  /\ sessions = <<"errored", "errored">>
  /\ Len(loops) = 2
  /\ loops[2].n = 1
  /\ connEvents = [error |-> 1, reconnect |-> 1, resets |-> 0]
  /\ _reconnectAttempts = 2

\* C38: the ack or nack of a delivery goes to the channel the delivery came
\* in on, never to a channel opened later and never to a null reference
C38_AckOnDeliveryChannel ==
  \A x \in DOMAIN deliveries :
    (deliveries[x].stage = "settled" /\ ~deliveries[x].skipped) =>
       deliveries[x].target = deliveries[x].channel

\* the channels opened and the consumers registered for listener i
BrokerFootprint(i) ==
  [channels |-> Cardinality({c \in DOMAIN channels : channels[c].listener = i}),
   consumers |-> {c \in DOMAIN channels :
                    channels[c].listener = i /\ channels[c].consumers # {}},
   calls |-> Cardinality({t \in DOMAIN tasks : tasks[t].listener = i})]

ClosedStaysQuiet ==
  \A i \in DOMAIN lst :
    lst[i].closed =>
      /\ lst'[i].events.error = lst[i].events.error
      /\ BrokerFootprint(i)' = BrokerFootprint(i)

\* C39: once close() of a listener on a shared manager has completed, no step
\* makes that listener emit `error` or touch the broker
C39_ClosedStaysQuiet == [][ClosedStaysQuiet]_vars

\* C40: once the socket has closed no request sent on it is left pending: the
\* closure rejects what was not answered
C40_ClosedSocketSettlesRequests ==
  ws.socket = SocketClosed =>
    \A k \in DOMAIN ws.requests : ws.requests[k].state # "pending"

====
